---------------------------- MODULE Spec2Model ----------------------------
(***************************************************************************)
(* Head-tracking control core of the Buddy robot.                          *)
(*                                                                         *)
(*   ReflexiveControl.h  - AdaptivePID, GentleTrajectory, ReflexiveControl *)
(*   HistogramTracker.h  - HistogramTracker                                *)
(*                                                                         *)
(* Numbers.  The source computes in float, and so does the model: the      *)
(* operators F32... below give the results of the processor's float        *)
(* arithmetic.  A float that the state holds is kept as a fixed-point      *)
(* number where its values allow it:                                       *)
(*   angles (panAngle, tiltAngle, trajectory)  : 1 degree = AngleScale;    *)
(*       a float of size 8 or more is held exactly, a smaller one is cut   *)
(*       to the next lower multiple of 1 / AngleScale                      *)
(*   GentleTrajectory.totalSteps               : 1 step = StepScale, exact *)
(*   AdaptivePID.integral                      : a float [s, m, e]         *)
(*   AdaptivePID.prev_error                    : held as pixels (the code  *)
(*       holds the float of pixels * 0.1)                                  *)
(*   errorMagnitude, trackingQuality           : floats [s, m, e]          *)
(* Time is millis(): the variable now, in milliseconds.  calculate reads   *)
(* it at its start and once more in updateLost; the counter may tick       *)
(* between the two readings, and now holds the later one after the call.   *)
(***************************************************************************)
EXTENDS Integers, Sequences, FiniteSets, TLC

(***************************************************************************)
(* Configuration constants of ReflexiveControl.h                           *)
(***************************************************************************)
CAMERA_CENTER_X == 120
CAMERA_CENTER_Y == 120
CAMERA_FRAME_WIDTH == 240
CAMERA_FRAME_HEIGHT == 240
BASE_MIN == 10
BASE_MAX == 170
BASE_CENTER == 90
NOD_MIN == 80
NOD_MAX == 150
NOD_CENTER == 115
REFLEX_UPDATE_RATE_MS == 20
ACQUIRE_THRESHOLD == 20
FRAMES_TO_ACQUIRE == 1
FRAMES_TO_TRACK == 2
FRAMES_TO_LOST == 10
RETURN_TO_CENTER_TIMEOUT_MS == 1500
BLIND_IGNORE_FRAMES == 5
SETTLING_FRAMES == 10
STALE_DATA_THRESHOLD == 3
STALE_DATA_TIMEOUT_MS == 300
STALE_DATA_MAX_COUNT == 5
\* MAX_VELOCITY_PER_FRAME 6.0
MAX_VELOCITY_PER_FRAME == 6
\* checkTimeout: "only check every 500ms", "2000ms timeout"
CHECK_PERIOD_MS == 500
FACE_TIMEOUT_MS == 2000
\* updateLost: "short-term prediction (< 1 second)"
PREDICT_WINDOW_MS == 1000

\* fixed-point scales
Micro == 1000 * 1000
\* one degree = AngleScale = 2^20
AngleScale == 1024 * 1024
\* one trajectory step = StepScale = 2^20
StepScale == 1024 * 1024

\* gain table of AdaptivePID: Kp in 1/1000, Kd in 1/10000, Ki in 1/1000,
\* max_integral in degrees
LARGE_ERROR_KP == 110
LARGE_ERROR_KD == 40
MEDIUM_ERROR_KP == 90
MEDIUM_ERROR_KD == 30
BALANCED_KP == 70
BALANCED_KD == 25
PRECISE_KP == 50
PRECISE_KD == 15
KI == 12
MAX_INTEGRAL == 15
\* CONTROL_DT 0.02 s, in milliseconds
CONTROL_DT_MS == 20
\* REFERENCE_FACE_WIDTH 55.0
REFERENCE_FACE_WIDTH == 55

(***************************************************************************)
(* Arduino helpers                                                         *)
(***************************************************************************)
\* constrain(amt, low, high)
Constrain(amt, low, high) ==
  IF amt < low THEN low ELSE IF amt > high THEN high ELSE amt

\* abs(x)
Abs(x) == IF x > 0 THEN x ELSE -x
Max(a, b) == IF a > b THEN a ELSE b
Min(a, b) == IF a < b THEN a ELSE b

\* C conversion of a quotient to int: rounds toward zero
TruncDiv(a, b) ==
  IF a >= 0 THEN a \div b ELSE -((-a) \div b)

\* floor(sqrt(n)) for n >= 0
RECURSIVE SqrtIter(_, _, _)
SqrtIter(n, lo, hi) ==
  IF lo >= hi THEN lo
  ELSE LET mid == (lo + hi + 1) \div 2
       IN IF mid * mid <= n THEN SqrtIter(n, mid, hi)
                            ELSE SqrtIter(n, lo, mid - 1)

ISqrt(n) == SqrtIter(n, 0, 46340)

\* floor(a * b / c) for a, b >= 0 and 0 < c < 2^25, without forming a * b:
\* long multiplication over the base-64 digits of b, carrying quotient and remainder
RECURSIVE MulDivIter(_, _, _, _)
MulDivIter(a, b, c, place) ==
  \* returns <<q, r>> with a * (b \div place) = q * c + r
  IF place > b THEN <<0, 0>>
  ELSE LET up == MulDivIter(a, b, c, 64 * place)
           digit == (b \div place) % 64
           carry == 64 * up[2]
           rest == (carry % c) + digit * (a % c)
       IN <<64 * up[1] + (carry \div c) + digit * (a \div c) + (rest \div c), rest % c>>

MulDiv(a, b, c) == MulDivIter(a, b, c, 1)[1]

(***************************************************************************)
(* float arithmetic                                                        *)
(* A float is a record [s, m, e] standing for s * m * 2^e: s is 1 or -1,   *)
(* m is 0 or 2^23 <= m < 2^24.  Every operation gives the float nearest    *)
(* to the exact result, ties to the even m, as the processor does.  One    *)
(* operation on floats that the source computes in double and stores in a  *)
(* float is rounded once: the double holds it exactly enough.  Longer      *)
(* double expressions use the double arithmetic further down.  A wide      *)
(* value [s, n, e, st] stands for s * n * 2^e, or, when st holds, for a    *)
(* value between that and s * (n + 1) * 2^e.                               *)
(***************************************************************************)
\* 2^k
Pow2(k) == 2 ^ k

\* floor(log2(n)), n >= 1
RECURSIVE Log2(_)
Log2(n) == IF n >= 16 THEN 4 + Log2(n \div 16) ELSE IF n >= 2 THEN 1 + Log2(n \div 2) ELSE 0

\* 0.0f
F32Zero == [s |-> 1, m |-> 0, e |-> 0]

Wide(s, n, e, st) == [s |-> s, n |-> n, e |-> e, st |-> st]

\* a float as a wide value, times 2^k
F32Wide(a, k) == Wide(a.s, a.m, a.e + k, FALSE)

\* the float nearest to a wide value
F32Round(x) ==
  IF x.n = 0 THEN F32Zero
  ELSE LET Cut(sh, q, up) ==
             IF up /\ q + 1 = Pow2(24)
             THEN [s |-> x.s, m |-> Pow2(23), e |-> x.e + sh + 1]
             ELSE [s |-> x.s, m |-> IF up THEN q + 1 ELSE q, e |-> x.e + sh]
           Parts(sh, q, r) ==
             Cut(sh, q, r > Pow2(sh - 1) \/ (r = Pow2(sh - 1) /\ (x.st \/ q % 2 = 1)))
           Bits(k) ==
             IF k <= 24
             THEN [s |-> x.s, m |-> x.n * Pow2(24 - k), e |-> x.e - (24 - k)]
             ELSE Parts(k - 24, x.n \div Pow2(k - 24), x.n % Pow2(k - 24))
       IN Bits(Log2(x.n) + 1)

\* (float)i
F32Int(i) == F32Round(Wide(IF i >= 0 THEN 1 ELSE -1, Abs(i), 0, FALSE))

\* -a
F32Neg(a) == IF a.m = 0 THEN a ELSE [a EXCEPT !.s = -@]

\* a * 2^k
F32Scale(a, k) == IF a.m = 0 THEN a ELSE [a EXCEPT !.e = @ + k]

\* -x
WideNeg(x) == [x EXCEPT !.s = -@]

\* s * (hi * 2^24 + lo) * 2^e cut to 30 bits, for 0 < hi < 2^24 and lo < 2^24
WideOfHalves(s, hi, lo, e, st) ==
  LET sh == 29 - Log2(hi)
  IN IF sh >= 24 THEN Wide(s, hi * Pow2(24) + lo, e, st)
     ELSE Wide(s, hi * Pow2(sh) + lo \div Pow2(24 - sh), e + 24 - sh,
               st \/ lo % Pow2(24 - sh) # 0)

\* a * b exactly, cut to 30 bits: the product of the 12-bit halves of m
F32Product(a, b) ==
  IF a.m = 0 \/ b.m = 0 THEN Wide(1, 0, 0, FALSE)
  ELSE LET ah == a.m \div 4096
           al == a.m % 4096
           bh == b.m \div 4096
           bl == b.m % 4096
           Sums(mid, low) ==
             WideOfHalves(a.s * b.s, ah * bh + mid \div 4096 + low \div Pow2(24),
                          low % Pow2(24), a.e + b.e, FALSE)
           Middle(mid) == Sums(mid, al * bl + (mid % 4096) * 4096)
       IN Middle(ah * bl + al * bh)

\* a * b
F32Mul(a, b) == F32Round(F32Product(a, b))

\* s * (n + r / q) * 2^e cut to 29 bits or more, by long division
RECURSIVE F32QuotientDigits(_, _, _, _, _)
F32QuotientDigits(s, n, r, q, e) ==
  IF n < Pow2(24)
  THEN F32QuotientDigits(s, n * 128 + (r * 128) \div q, (r * 128) % q, q, e - 7)
  ELSE IF n < Pow2(28)
  THEN F32QuotientDigits(s, n * 8 + (r * 8) \div q, (r * 8) % q, q, e - 3)
  ELSE Wide(s, n, e, r # 0)

\* s * p / q * 2^e for p >= 0 and 0 < q < 2^24
F32Quotient(s, p, q, e) ==
  IF p = 0 THEN Wide(1, 0, 0, FALSE) ELSE F32QuotientDigits(s, p \div q, p % q, q, e)

\* the float nearest to p / q, for integers p and 0 < q < 2^24
F32Ratio(p, q) == F32Round(F32Quotient(IF p >= 0 THEN 1 ELSE -1, Abs(p), q, 0))

\* a * p / q for integers 0 < p < 128 and 0 < q, computed in double and stored in a
\* float
F32Times(a, p, q) == F32Round(F32Quotient(a.s, a.m * p, q, a.e))

\* a / b
F32Div(a, b) == F32Round(F32Quotient(a.s * b.s, a.m, b.m, a.e - b.e))

\* floor(n * 2^k) and whether bits were lost
F32Shift(n, k) ==
  IF k >= 0 THEN <<n * Pow2(k), FALSE>>
  ELSE IF k < -30 THEN <<0, n # 0>>
  ELSE <<n \div Pow2(-k), n % Pow2(-k) # 0>>

\* a float and a wide value on one scale: [A, B, E, sa, sb], the float being
\* (A + sa) * 2^E and the wide value (B + sb) * 2^E in size, the larger with 30 bits
F32Align(a, x) ==
  LET On(A, B, E) == [A |-> A[1], B |-> B[1], E |-> E, sa |-> A[2], sb |-> B[2] \/ x.st]
      Scale(E) == On(F32Shift(a.m, a.e - E), F32Shift(x.n, x.e - E), E)
      Top(ta, tx) == Scale((IF ta > tx THEN ta ELSE tx) - 30)
  IN Top(a.e + 24, x.e + Log2(x.n) + 1)

\* a + x as a wide value, for a float a and a wide value x
F32WideSum(a, x) ==
  IF x.n = 0 THEN F32Wide(a, 0)
  ELSE IF a.m = 0 THEN x
  ELSE LET Sum(al, D) ==
             IF a.s = x.s THEN Wide(a.s, al.A + al.B, al.E, al.sa \/ al.sb)
             ELSE IF al.sb /\ ~al.sa
             THEN (IF D > 0 THEN Wide(a.s, D - 1, al.E, TRUE)
                   ELSE Wide(x.s, -D, al.E, TRUE))
             ELSE IF al.sa /\ ~al.sb
             THEN (IF D >= 0 THEN Wide(a.s, D, al.E, TRUE)
                   ELSE Wide(x.s, -D - 1, al.E, TRUE))
             ELSE Wide(IF D >= 0 THEN a.s ELSE x.s, Abs(D), al.E, al.sa)
           Aligned(al) == Sum(al, al.A - al.B)
       IN Aligned(F32Align(a, x))

\* the float nearest to a + x, for a float a and a wide value x
F32Sum(a, x) == F32Round(F32WideSum(a, x))

\* a + b, a - b
F32Add(a, b) == F32Sum(a, F32Wide(b, 0))
F32Sub(a, b) == F32Sum(a, F32Wide(F32Neg(b), 0))

\* a < x for a float a and a wide value x
F32Below(a, x) ==
  IF x.n = 0 THEN a.m # 0 /\ a.s = -1
  ELSE IF a.m = 0 THEN x.s = 1
  ELSE IF a.s # x.s THEN a.s = -1
  ELSE LET Aligned(al) ==
             IF a.s = 1 THEN al.A < al.B \/ (al.A = al.B /\ al.sb /\ ~al.sa)
             ELSE al.A > al.B \/ (al.A = al.B /\ al.sa /\ ~al.sb)
       IN Aligned(F32Align(a, x))

\* a < b
F32Less(a, b) == F32Below(a, F32Wide(b, 0))

\* constrain(a, lo, hi) stored in a float
F32Clamp(a, lo, hi) == IF F32Less(a, lo) THEN lo ELSE IF F32Less(hi, a) THEN hi ELSE a

\* sqrt(n * 4^h) digit by digit to 25 bits: root^2 + rem = n * 4^(steps so far)
RECURSIVE F32SqrtDigits(_, _, _)
F32SqrtDigits(root, rem, h) ==
  IF root >= Pow2(24) THEN Wide(1, root, h, rem # 0)
  ELSE IF 4 * rem >= 4 * root + 1
  THEN F32SqrtDigits(2 * root + 1, 4 * rem - (4 * root + 1), h - 1)
  ELSE F32SqrtDigits(2 * root, 4 * rem, h - 1)

\* sqrt(a) for a float a >= 0
F32Sqrt(a) ==
  IF a.m = 0 THEN F32Zero
  ELSE LET Root(n, root, e) == F32Round(F32SqrtDigits(root, n - root * root, e \div 2))
           Even(n, e) == Root(n, ISqrt(n), e)
       IN IF a.e % 2 = 0 THEN Even(a.m, a.e) ELSE Even(2 * a.m, a.e - 1)

\* (int)a: toward zero
F32Trunc(a) == a.s * F32Shift(a.m, a.e)[1]

\* floor(a * scale) for a power of two scale: a float as a fixed-point number
F32Fixed(a, scale) ==
  LET v == F32Shift(a.m, a.e + Log2(scale))
  IN IF a.s = 1 THEN v[1] ELSE -(v[1] + (IF v[2] THEN 1 ELSE 0))

\* the float of the fixed-point number v / scale
F32Of(v, scale) == F32Round(Wide(IF v >= 0 THEN 1 ELSE -1, Abs(v), -Log2(scale), FALSE))

(***************************************************************************)
(* double arithmetic                                                       *)
(* A natural number of any size is the sequence of its digits to the base  *)
(* 4096, the lowest first and the highest not 0; 0 is the empty sequence.  *)
(* A double is a record [s, n, e] standing for s * n * 2^e, n being such a *)
(* number of at most 53 bits; the same record with a longer n is the exact *)
(* value of an operation before it is rounded.  Every operation gives the  *)
(* double nearest to the exact result, ties to the even n, and a double    *)
(* stored in a float is rounded again.                                     *)
(***************************************************************************)
\* the digit of place k, the lowest place being 1
BigDigit(a, k) == IF k <= Len(a) THEN a[k] ELSE 0

\* the digits of the number that holds d[k] * 4096^(k-1) at the places i <= k <= n
\* and carry * 4096^(i-1) besides; a place may hold any integer, the sum is not
\* negative
RECURSIVE BigCarry(_, _, _, _)
BigCarry(d, n, i, carry) ==
  LET place(v) == <<v % 4096>> \o BigCarry(d, n, i + 1, v \div 4096)
  IN IF i <= n THEN place(d[i] + carry)
     ELSE IF carry = 0 THEN <<>>
     ELSE place(carry)

\* the sum of a[i] * b[j] over i + j = k + 1, from i on
RECURSIVE BigPlace(_, _, _, _)
BigPlace(a, b, k, i) ==
  IF i > Len(a) \/ i > k THEN 0
  ELSE a[i] * BigDigit(b, k + 1 - i) + BigPlace(a, b, k, i + 1)

\* a * b, a + b and a - b (for a >= b)
BigTimes(a, b) ==
  IF a = <<>> \/ b = <<>> THEN <<>>
  ELSE BigCarry([k \in 1..(Len(a) + Len(b) - 1) |-> BigPlace(a, b, k, 1)],
                Len(a) + Len(b) - 1, 1, 0)

BigPlus(a, b) ==
  BigCarry([k \in 1..Max(Len(a), Len(b)) |-> BigDigit(a, k) + BigDigit(b, k)],
           Max(Len(a), Len(b)), 1, 0)

BigMinus(a, b) ==
  BigCarry([k \in 1..Max(Len(a), Len(b)) |-> BigDigit(a, k) - BigDigit(b, k)],
           Max(Len(a), Len(b)), 1, 0)

\* a * 2^k, k >= 0
BigShift(a, k) ==
  [i \in 1..(k \div 12) |-> 0] \o BigCarry([i \in 1..Len(a) |-> a[i] * Pow2(k % 12)], Len(a), 1, 0)

\* the highest place at or below k that holds a digit other than 0, or 0
RECURSIVE BigTop(_, _)
BigTop(a, k) == IF k = 0 \/ a[k] # 0 THEN k ELSE BigTop(a, k - 1)

\* the number of bits of a
BigBits(a) ==
  LET bits(k) == IF k = 0 THEN 0 ELSE 12 * (k - 1) + Log2(a[k]) + 1
  IN bits(BigTop(a, Len(a)))

\* a < b, comparing from place k down
RECURSIVE BigLessFrom(_, _, _)
BigLessFrom(a, b, k) ==
  IF k = 0 THEN FALSE
  ELSE IF BigDigit(a, k) # BigDigit(b, k) THEN BigDigit(a, k) < BigDigit(b, k)
  ELSE BigLessFrom(a, b, k - 1)

BigLess(a, b) == BigLessFrom(a, b, Max(Len(a), Len(b)))

\* a number below 2^31 as an integer, from place k up
RECURSIVE BigInt(_, _)
BigInt(a, k) == IF k > Len(a) THEN 0 ELSE a[k] + 4096 * BigInt(a, k + 1)

\* the digits of an integer n >= 0
BigOf(n) == BigCarry(<<>>, 0, 1, n)

\* floor(a * 4096^(1-k) / q) below the place k and the rest of the division, given
\* those of the places above k as up = <<digits, rest>>, for 0 < q < 2^19
RECURSIVE BigDivide(_, _, _, _)
BigDivide(a, q, k, up) ==
  IF k = 0 THEN up
  ELSE BigDivide(a, q, k - 1,
                 << <<(up[2] * 4096 + a[k]) \div q>> \o up[1], (up[2] * 4096 + a[k]) % q>>)

\* the value x cut to p bits, to the nearest, ties to the even
BigRound(x, p) ==
  LET cut(sh, w, b) ==
        LET rounded(q, low) ==
              [s |-> x.s,
               n |-> IF /\ low >= Pow2(b - 1)
                        /\ \/ low > Pow2(b - 1)
                           \/ \E i \in 1..w : x.n[i] # 0
                           \/ q[1] % 2 = 1
                     THEN BigCarry(q, BigTop(q, Len(q)), 1, 1)
                     ELSE SubSeq(q, 1, BigTop(q, Len(q))),
               e |-> x.e + sh]
        IN rounded(BigCarry([i \in 1..(Len(x.n) - w) |->
                               x.n[w + i] \div Pow2(b)
                               + (BigDigit(x.n, w + i + 1) % Pow2(b)) * Pow2(12 - b)],
                            Len(x.n) - w, 1, 0),
                   x.n[w + 1] % Pow2(b))
      whole(sh, w) == cut(sh, w, sh - 12 * w)
      over(sh) == IF sh <= 0 THEN [x EXCEPT !.n = SubSeq(@, 1, BigTop(@, Len(@)))]
                  ELSE whole(sh, (sh - 1) \div 12)
  IN over(BigBits(x.n) - p)

\* the double nearest to an exact value
D64Round(x) == BigRound(x, 53)

\* (double)a for a float a
D64OfF32(a) == [s |-> a.s, n |-> BigOf(a.m), e |-> a.e]

\* the double nearest to p / q, for integers 0 < p < 4096 and 0 < q < 4096: the
\* quotient to 72 bits and one more bit that tells whether the division left a rest
D64Ratio(p, q) ==
  LET quotient(d) ==
        D64Round([s |-> 1, n |-> BigCarry([i \in 1..Len(d[1]) |-> 2 * d[1][i]], Len(d[1]),
                                          1, IF d[2] # 0 THEN 1 ELSE 0),
                  e |-> -73])
  IN quotient(BigDivide(<<0, 0, 0, 0, 0, 0, p>>, q, 7, << <<>>, 0>>))

\* n * 2^e for an integer 0 <= n < 2^31
D64Of(n, e) == [s |-> 1, n |-> BigOf(n), e |-> e]

\* x * y
D64Mul(x, y) ==
  IF y.n = <<>> THEN y
  ELSE IF x.n = <<>> THEN x
  ELSE D64Round([s |-> x.s * y.s, n |-> BigTimes(x.n, y.n), e |-> x.e + y.e])

\* x + y
D64Add(x, y) ==
  LET sum(X, Y, E) ==
        IF x.s = y.s THEN [s |-> x.s, n |-> BigPlus(X, Y), e |-> E]
        ELSE IF BigLess(X, Y) THEN [s |-> y.s, n |-> BigMinus(Y, X), e |-> E]
        ELSE IF BigLess(Y, X) THEN [s |-> x.s, n |-> BigMinus(X, Y), e |-> E]
        ELSE [s |-> 1, n |-> <<>>, e |-> 0]
      aligned(E) == sum(BigShift(x.n, x.e - E), BigShift(y.n, y.e - E), E)
  IN IF y.n = <<>> THEN x
     ELSE IF x.n = <<>> THEN y
     ELSE D64Round(aligned(Min(x.e, y.e)))

\* x - y
D64Sub(x, y) == D64Add(x, [y EXCEPT !.s = -@])

\* (float)x
F32OfD64(x) ==
  LET stored(r) == F32Round(Wide(r.s, BigInt(r.n, 1), r.e, FALSE))
  IN stored(BigRound(x, 24))

(***************************************************************************)
(* AdaptivePID                                                             *)
(* A controller is a record [integral, prev_error]: integral a float,      *)
(* prev_error in pixels.  Kp and Kd are set by updateGains on every        *)
(* control update before update() reads them, so they are values of the    *)
(* update, not state.                                                      *)
(***************************************************************************)
\* AdaptivePID::reset
PIDReset == [integral |-> F32Zero, prev_error |-> 0]

\* updateGains: the gain set for an error magnitude whose square is sq
\* (absError > 50 / > 30 / > 15, else the precise set)
GainKp(sq) ==
  IF sq > 50 * 50 THEN LARGE_ERROR_KP
  ELSE IF sq > 30 * 30 THEN MEDIUM_ERROR_KP
  ELSE IF sq > 15 * 15 THEN BALANCED_KP
  ELSE PRECISE_KP

GainKd(sq) ==
  IF sq > 50 * 50 THEN LARGE_ERROR_KD
  ELSE IF sq > 30 * 30 THEN MEDIUM_ERROR_KD
  ELSE IF sq > 15 * 15 THEN BALANCED_KD
  ELSE PRECISE_KD

\* AdaptivePID::update(err * 0.1, CONTROL_DT) with the gains of updateGains(totalError,
\* motionScale); err is the pixel error of the axis, sq the square of totalError,
\* motionScale a float.  Returns the new controller and the output, a float.
\*   derivative = (error - prev_error) / dt
\*   integral  += Ki * error * dt, constrained to +-max_integral
\*   output     = Kp * error + integral + Kd * derivative
PIDUpdate(pid, err, sq, motionScale) ==
  LET update(error, dt, Kp, Kd) ==
        LET output(derivative, integral) ==
              [pid |-> [integral |-> integral, prev_error |-> err],
               output |-> F32Add(F32Add(F32Mul(Kp, error), integral),
                                 F32Mul(Kd, derivative))]
        IN output(F32Div(F32Sub(error, F32Ratio(pid.prev_error, 10)), dt),
                  F32Clamp(F32Add(pid.integral,
                                  F32Mul(F32Mul(F32Ratio(KI, 1000), error), dt)),
                           F32Int(-MAX_INTEGRAL), F32Int(MAX_INTEGRAL)))
  IN update(F32Ratio(err, 10), F32Ratio(CONTROL_DT_MS, 1000),
            F32Mul(F32Ratio(GainKp(sq), 1000), motionScale),
            F32Mul(F32Ratio(GainKd(sq), 10000), motionScale))

(***************************************************************************)
(* GentleTrajectory                                                        *)
(* [active, startPan, startTilt, currentStep, totalSteps]: angles in       *)
(* AngleScale, currentStep a count, totalSteps in StepScale.  targetPan    *)
(* and targetTilt are always the centre.                                   *)
(***************************************************************************)
TrajectoryInit ==
  [active |-> FALSE, startPan |-> 0, startTilt |-> 0, currentStep |-> 0, totalSteps |-> 0]

\* totalSteps of planReturnToCenter, in StepScale:
\*   distance = sqrt(pow(targetPan - fromPan, 2) + pow(targetTilt - fromTilt, 2))
\*   totalSteps = constrain(distance / 60.0, 0.3, 1.5) * 50
\* The squares and their sum are exact for a start in whole degrees, which is what
\* calculate supplies.
PlanTotalSteps(fromPan, fromTilt) ==
  LET distance(dx, dy) == F32Sqrt(F32Add(F32Mul(dx, dx), F32Mul(dy, dy)))
      durationSeconds(d) == F32Clamp(F32Times(d, 1, 60), F32Ratio(3, 10), F32Ratio(15, 10))
  IN F32Fixed(F32Mul(durationSeconds(distance(
                       F32Sub(F32Int(BASE_CENTER), F32Of(fromPan, AngleScale)),
                       F32Sub(F32Int(NOD_CENTER), F32Of(fromTilt, AngleScale)))),
                     F32Int(50)),
              StepScale)

\* GentleTrajectory::planReturnToCenter
PlanReturnToCenter(fromPan, fromTilt) ==
  [active |-> TRUE, startPan |-> fromPan, startTilt |-> fromTilt,
   currentStep |-> 0, totalSteps |-> PlanTotalSteps(fromPan, fromTilt)]

\* smoothT of step c of n (n in StepScale), a float: with t = c / n,
\*   (t < 0.5) ? 2 * t * t : 1 - pow(-2 * t + 2, 2) / 2
\* the second in double from the float -2 * t + 2
SmoothT(c, n) ==
  LET easeOut(square) == F32Sum(F32Int(1), Wide(-1, square.n, square.e - 1, square.st))
      squared(x) == easeOut(F32Product(x, x))
      smoothT(t) == IF F32Less(t, F32Ratio(1, 2)) THEN F32Scale(F32Mul(t, t), 1)
                    ELSE squared(F32Sub(F32Int(2), F32Scale(t, 1)))
  IN smoothT(F32Div(F32Int(c), F32Of(n, StepScale)))

\* start + (target - start) * smoothT, angles in AngleScale
EaseBlend(start, target, smoothT) ==
  F32Fixed(F32Add(F32Of(start, AngleScale),
                  F32Mul(F32Sub(F32Of(target, AngleScale), F32Of(start, AngleScale)),
                         smoothT)),
           AngleScale)

\* fault: the plan is complete only when currentStep is above totalSteps
GetNextPositionPastEnd(traj) ==
  IF ~traj.active THEN [ok |-> FALSE, pan |-> 0, tilt |-> 0, traj |-> traj]
  ELSE IF traj.currentStep * StepScale > traj.totalSteps
  THEN [ok |-> FALSE, pan |-> 0, tilt |-> 0, traj |-> [traj EXCEPT !.active = FALSE]]
  ELSE LET position(smoothT) ==
             [ok |-> TRUE,
              pan |-> EaseBlend(traj.startPan, BASE_CENTER * AngleScale, smoothT),
              tilt |-> EaseBlend(traj.startTilt, NOD_CENTER * AngleScale, smoothT),
              traj |-> [traj EXCEPT !.currentStep = @ + 1]]
       IN position(SmoothT(traj.currentStep, traj.totalSteps))

\* GentleTrajectory::getNextPosition: [ok, pan, tilt, traj]
GetNextPosition(traj) ==
  IF ~traj.active THEN [ok |-> FALSE, pan |-> 0, tilt |-> 0, traj |-> traj]
  ELSE IF traj.currentStep * StepScale >= traj.totalSteps
  THEN [ok |-> FALSE, pan |-> 0, tilt |-> 0, traj |-> [traj EXCEPT !.active = FALSE]]
  ELSE LET position(smoothT) ==
             [ok |-> TRUE,
              pan |-> EaseBlend(traj.startPan, BASE_CENTER * AngleScale, smoothT),
              tilt |-> EaseBlend(traj.startTilt, NOD_CENTER * AngleScale, smoothT),
              traj |-> [traj EXCEPT !.currentStep = @ + 1]]
       IN position(SmoothT(traj.currentStep, traj.totalSteps))

\* fault: cancel that leaves the trajectory running
TrajectoryKeep(traj) == traj

\* GentleTrajectory::cancel
TrajectoryCancel(traj) == [traj EXCEPT !.active = FALSE]

(***************************************************************************)
(* State                                                                   *)
(***************************************************************************)
VARIABLES
  state,               \* ReflexState (the fields the control path reads or writes)
  panPID, tiltPID,     \* AdaptivePID, one per axis
  trajectory,          \* GentleTrajectory
  lastUpdateTime,      \* time of the last processed calculate
  isReturningToCenter,
  lastFaceX, lastFaceY, lastVelocityTime,
  lastCheck,           \* the static of checkTimeout
  now,                 \* millis()
  driver,              \* how the caller drives the core: "free" or "loop"
  call,                \* the last calculate call, with what it returned
  hist,                \* history of the run: the driver's budgets, and what the
                       \* properties need to know of the past
  tracker,             \* HistogramTracker
  trackCall            \* the last call of the tracker with what it returned, the
                       \* caller's output variables, and the trail of the searches

reflexVars == <<state, panPID, tiltPID, trajectory, lastUpdateTime, isReturningToCenter,
                lastFaceX, lastFaceY, lastVelocityTime, lastCheck>>

trackerVars == <<tracker, trackCall>>

\* ReflexiveControl::reset (ReflexState part)
ResetState ==
  [active |-> FALSE, shouldBeActive |-> FALSE,
   controlState |-> "LOST", blindState |-> "NORMAL",
   faceX |-> CAMERA_CENTER_X, faceY |-> CAMERA_CENTER_Y,
   faceVX |-> 0, faceVY |-> 0, faceSize |-> 0, faceConfidence |-> 0,
   faceDistance |-> 100, lastFaceTime |-> 0,
   prevFaceX |-> CAMERA_CENTER_X, prevFaceY |-> CAMERA_CENTER_Y,
   lastChangeTime |-> 0, staleDataCount |-> 0, dataIsStale |-> FALSE,
   framesTracked |-> 0, framesLost |-> 0, blindFrameCounter |-> 0,
   panAngle |-> BASE_CENTER * AngleScale, tiltAngle |-> NOD_CENTER * AngleScale,
   targetBase |-> BASE_CENTER, targetNod |-> NOD_CENTER,
   trackingQuality |-> F32Zero, errorMagnitude |-> F32Zero, isSettled |-> FALSE]

\* call when the last call was not a calculate
NoCall ==
  [op |-> "none", processed |-> FALSE, valid |-> FALSE, curBase |-> 0, curNod |-> 0,
   baseOut |-> 0, nodOut |-> 0, ret |-> FALSE,
   preControl |-> "LOST", preBlind |-> "NORMAL", preTrajectory |-> FALSE]

\* the history at construction
HistInit ==
  [accepted |-> FALSE,   \* updateFaceData has accepted a report since construction or reset
   run |-> 0,            \* consecutive processed ticks with a valid position, up to now
   further |-> 0,        \* of these, the ticks after the one that entered ACQUIRE
   quiet |-> 0,          \* consecutive processed ticks without an updateFaceData call,
                         \* the first of them starting in ACQUIRE or TRACK
   invalid |-> 0,        \* consecutive processed ticks without a valid position, up to now
   returning |-> 0,      \* processed ticks that ended in LOST since the one that planned
                         \* a return to the centre, that one counted, with no
                         \* updateFaceData call since; 0 when there is none
   calls |-> 0, ticks |-> 0, reports |-> 0,   \* what the driver has spent
   paused |-> FALSE,     \* loop driver: the loop has stalled once
   due |-> FALSE]        \* loop driver: a period has passed, calculate is due

(***************************************************************************)
(* Queries                                                                 *)
(***************************************************************************)
isActive == state.active
isSettled == state.isSettled

(***************************************************************************)
(* Activation                                                              *)
(***************************************************************************)
\* ReflexiveControl::enable
EnableState(s) == [s EXCEPT !.shouldBeActive = TRUE, !.active = TRUE]

\* fault: disable withdraws the intent and leaves the core running
DisableLeavesActive(s) == [s EXCEPT !.shouldBeActive = FALSE]

\* ReflexiveControl::disable
DisableState(s) ==
  [s EXCEPT !.shouldBeActive = FALSE, !.active = FALSE,
            !.isSettled = IF s.active THEN FALSE ELSE @]

\* ReflexiveControl::faceLost
FaceLostState(s) ==
  [s EXCEPT !.active = FALSE, !.isSettled = IF s.active THEN FALSE ELSE @]

\* fault: checkTimeout does not ask whether a report was ever accepted
CheckTimeoutWithoutReport(s, lc, t) ==
  IF ~s.active THEN [state |-> s, lastCheck |-> lc]
  ELSE IF t - lc < CHECK_PERIOD_MS THEN [state |-> s, lastCheck |-> lc]
  ELSE [state |-> IF t - s.lastFaceTime > FACE_TIMEOUT_MS
                  THEN [s EXCEPT !.active = FALSE] ELSE s,
        lastCheck |-> t]

\* ReflexiveControl::checkTimeout: [state, lastCheck]
CheckTimeoutResult(s, lc, t) ==
  IF ~s.active THEN [state |-> s, lastCheck |-> lc]
  ELSE IF t - lc < CHECK_PERIOD_MS THEN [state |-> s, lastCheck |-> lc]
  ELSE [state |-> IF s.lastFaceTime > 0 /\ t - s.lastFaceTime > FACE_TIMEOUT_MS
                  THEN [s EXCEPT !.active = FALSE] ELSE s,
        lastCheck |-> t]

(***************************************************************************)
(* Face data input                                                         *)
(***************************************************************************)
\* fault: a report that moved less than the threshold is dropped at once
StaleDetectAtOnce(s, x, y, t) ==
  IF Abs(x - s.prevFaceX) + Abs(y - s.prevFaceY) >= STALE_DATA_THRESHOLD
  THEN [state |-> [s EXCEPT !.prevFaceX = x, !.prevFaceY = y, !.lastChangeTime = t,
                            !.staleDataCount = 0, !.dataIsStale = FALSE],
        dropped |-> FALSE]
  ELSE [state |-> [s EXCEPT !.staleDataCount = @ + 1, !.dataIsStale = TRUE,
                            !.active = FALSE],
        dropped |-> TRUE]

\* updateFaceData, stale data detection, for the constrained report (x, y) at time t:
\* the state with the stale bookkeeping updated, and whether the report is dropped
StaleDetect(s, x, y, t) ==
  LET totalChange == Abs(x - s.prevFaceX) + Abs(y - s.prevFaceY)
  IN IF totalChange >= STALE_DATA_THRESHOLD
     THEN [state |-> [s EXCEPT !.prevFaceX = x, !.prevFaceY = y, !.lastChangeTime = t,
                               !.staleDataCount = 0, !.dataIsStale = FALSE],
           dropped |-> FALSE]
     ELSE LET count == s.staleDataCount + 1
          IN IF t - s.lastChangeTime > STALE_DATA_TIMEOUT_MS \/ count > STALE_DATA_MAX_COUNT
             THEN [state |-> [s EXCEPT !.staleDataCount = count, !.dataIsStale = TRUE,
                                       !.active = FALSE],
                   dropped |-> TRUE]
             ELSE [state |-> [s EXCEPT !.staleDataCount = count], dropped |-> FALSE]

\* updateFaceData, velocity derived from position: with float dt = (now -
\* lastVelocityTime) / 1000.0, (int)((x - last) / dt), limited to [-200, 200]; kept
\* when dt is outside (0.001, 0.5).  The float nearest 0.001 is above 0.001, so 1 ms
\* passes the test
DerivedVelocity(old, x, last, lvt, t) ==
  IF lvt > 0 /\ t - lvt >= 1 /\ t - lvt < 500
  THEN Constrain(F32Trunc(F32Div(F32Int(x - last), F32Ratio(t - lvt, 1000))), -200, 200)
  ELSE old

\* fault: updateFaceData stores the coordinates as they come
UpdateFaceDataUnclamped(s, lfx, lfy, lvt, x0, y0, size, distance, t) ==
  [state |-> [StaleDetect(s, x0, y0, t).state EXCEPT
                !.faceX = x0, !.faceY = y0, !.faceSize = size,
                !.faceDistance = distance, !.lastFaceTime = t],
   lastFaceX |-> x0, lastFaceY |-> y0, lastVelocityTime |-> t, accepted |-> TRUE]

\* ReflexiveControl::updateFaceData(x0, y0, size, distance) at time t:
\* [state, lastFaceX, lastFaceY, lastVelocityTime, accepted]
UpdateFaceDataResult(s, lfx, lfy, lvt, x0, y0, size, distance, t) ==
  LET x == Constrain(x0, 0, CAMERA_FRAME_WIDTH)
      y == Constrain(y0, 0, CAMERA_FRAME_HEIGHT)
      sd == StaleDetect(s, x, y, t)
      s1 == sd.state
  IN IF sd.dropped
     THEN [state |-> s1, lastFaceX |-> lfx, lastFaceY |-> lfy, lastVelocityTime |-> lvt,
           accepted |-> FALSE]
     ELSE [state |->
             [s1 EXCEPT !.faceVX = DerivedVelocity(s1.faceVX, x, lfx, lvt, t),
                        !.faceVY = DerivedVelocity(s1.faceVY, y, lfy, lvt, t),
                        !.faceX = x, !.faceY = y, !.faceSize = size,
                        !.faceDistance = distance, !.lastFaceTime = t,
                        !.faceConfidence = IF @ = 0 THEN 100 ELSE @,
                        !.active = IF s1.shouldBeActive /\ ~s1.active /\ ~s1.dataIsStale
                                   THEN TRUE ELSE @],
           lastFaceX |-> x, lastFaceY |-> y, lastVelocityTime |-> t,
           accepted |-> TRUE]

\* ReflexiveControl::updateConfidence
UpdateConfidenceState(s, confidence) ==
  [s EXCEPT !.faceConfidence = Constrain(confidence, 0, 100)]

(***************************************************************************)
(* Control computation                                                     *)
(***************************************************************************)
\* fault: the target without the constrain
TargetUnclamped(angle, lo, hi) == angle \div AngleScale

\* (int)constrain(angle, lo, hi) of an angle in AngleScale: whole degrees
TargetOf(angle, lo, hi) ==
  Constrain(angle, lo * AngleScale, hi * AngleScale) \div AngleScale

\* calculate, OUTPUT: targets from the running angles
WithTargets(s) ==
  [s EXCEPT !.targetBase = TargetOf(s.panAngle, BASE_MIN, BASE_MAX),
            !.targetNod = TargetOf(s.tiltAngle, NOD_MIN, NOD_MAX)]

\* calculate, BLIND STATE MACHINE: [state, trajectory, isReturningToCenter, returned]
\* returned: the call ends here with the trajectory's angles (face data ignored)
BlindMachine(s, traj, rtc) ==
  IF s.blindState = "NORMAL"
  THEN [state |-> s, trajectory |-> traj, isReturningToCenter |-> rtc, returned |-> FALSE]
  ELSE
    LET counter == s.blindFrameCounter + 1
    IN IF s.blindState = "BLIND_MOVING" /\ counter <= BLIND_IGNORE_FRAMES
       THEN LET moved(nx) ==
                  [state |-> WithTargets([s EXCEPT
                               !.blindFrameCounter = counter,
                               !.panAngle = IF nx.ok THEN nx.pan ELSE @,
                               !.tiltAngle = IF nx.ok THEN nx.tilt ELSE @]),
                   trajectory |-> nx.traj,
                   isReturningToCenter |-> rtc, returned |-> TRUE]
            IN moved(GetNextPosition(traj))
       ELSE
         \* BLIND_MOVING past its frames becomes GENTLE_SETTLING with the counter at 0
         LET c1 == IF s.blindState = "BLIND_MOVING" THEN 0 ELSE counter
             over == c1 > SETTLING_FRAMES
         IN [state |-> [s EXCEPT !.blindState = IF over THEN "NORMAL" ELSE "GENTLE_SETTLING",
                                 !.blindFrameCounter = IF over THEN 0 ELSE c1],
             trajectory |-> traj,
             isReturningToCenter |-> IF over THEN FALSE ELSE rtc,
             returned |-> FALSE]

\* calculate: bool faceDetected = state.active && !state.dataIsStale
FaceDetected(s) == s.active /\ ~s.dataIsStale

\* fault: the acquire threshold is not looked at
AcquiredAlways(s) == TRUE

\* calculate: errorX < ACQUIRE_THRESHOLD && errorY < ACQUIRE_THRESHOLD
Acquired(s) ==
  /\ Abs(s.faceX - CAMERA_CENTER_X) < ACQUIRE_THRESHOLD
  /\ Abs(s.faceY - CAMERA_CENTER_Y) < ACQUIRE_THRESHOLD

\* fault: the first tick without a valid position already gives LOST
StateMachineLostAtOnce(s, traj) ==
  IF FaceDetected(s)
  THEN LET tracked == s.framesTracked + 1
           s1 == [s EXCEPT !.framesLost = 0, !.framesTracked = tracked]
       IN IF s.controlState = "LOST" /\ tracked >= FRAMES_TO_ACQUIRE
          THEN [state |-> [s1 EXCEPT !.controlState = "ACQUIRE"],
                trajectory |-> TrajectoryCancel(traj)]
          ELSE IF s.controlState = "ACQUIRE" /\ tracked >= FRAMES_TO_TRACK /\ Acquired(s)
          THEN [state |-> [s1 EXCEPT !.controlState = "TRACK"], trajectory |-> traj]
          ELSE [state |-> s1, trajectory |-> traj]
  ELSE [state |-> [s EXCEPT !.framesTracked = 0, !.framesLost = @ + 1,
                            !.controlState = "LOST", !.blindState = "NORMAL"],
        trajectory |-> traj]

\* StateMachine whose transition to LOST leaves blindState as it is
StateMachineKeepingBlindState(s, traj) ==
  IF FaceDetected(s)
  THEN LET tracked == s.framesTracked + 1
           s1 == [s EXCEPT !.framesLost = 0, !.framesTracked = tracked]
       IN IF s.controlState = "LOST" /\ tracked >= FRAMES_TO_ACQUIRE
          THEN [state |-> [s1 EXCEPT !.controlState = "ACQUIRE"],
                trajectory |-> TrajectoryCancel(traj)]
          ELSE IF s.controlState = "ACQUIRE" /\ tracked >= FRAMES_TO_TRACK /\ Acquired(s)
          THEN [state |-> [s1 EXCEPT !.controlState = "TRACK"], trajectory |-> traj]
          ELSE [state |-> s1, trajectory |-> traj]
  ELSE LET lost == s.framesLost + 1
           s1 == [s EXCEPT !.framesTracked = 0, !.framesLost = lost]
       IN IF lost >= FRAMES_TO_LOST /\ s.controlState # "LOST"
          THEN [state |-> [s1 EXCEPT !.controlState = "LOST"], trajectory |-> traj]
          ELSE [state |-> s1, trajectory |-> traj]

\* calculate, STATE MACHINE: [state, trajectory]
StateMachine(s, traj) ==
  IF FaceDetected(s)
  THEN LET tracked == s.framesTracked + 1
           s1 == [s EXCEPT !.framesLost = 0, !.framesTracked = tracked]
       IN IF s.controlState = "LOST" /\ tracked >= FRAMES_TO_ACQUIRE
          THEN [state |-> [s1 EXCEPT !.controlState = "ACQUIRE"],
                trajectory |-> TrajectoryCancel(traj)]
          ELSE IF s.controlState = "ACQUIRE" /\ tracked >= FRAMES_TO_TRACK /\ Acquired(s)
          THEN [state |-> [s1 EXCEPT !.controlState = "TRACK"], trajectory |-> traj]
          ELSE [state |-> s1, trajectory |-> traj]
  ELSE LET lost == s.framesLost + 1
           s1 == [s EXCEPT !.framesTracked = 0, !.framesLost = lost]
       IN IF lost >= FRAMES_TO_LOST /\ s.controlState # "LOST"
          THEN [state |-> [s1 EXCEPT !.controlState = "LOST", !.blindState = "NORMAL"],
                trajectory |-> traj]
          ELSE [state |-> s1, trajectory |-> traj]

\* updatePredictiveTracking: int deadband = 12 + (int)((1.0 - confidenceRatio) * 8)
Deadband(confidence) == 12 + ((100 - confidence) * 8) \div 100

\* updatePredictiveTracking: the error of one axis after the deadband (TRACK only)
AxisError(s, raw) ==
  IF s.controlState = "TRACK" /\ Abs(raw) < Deadband(s.faceConfidence) THEN 0 ELSE raw

\* updatePredictiveTracking: motionScale, a float; sq the square of totalError
\*   confidenceScale = 0.4 + (faceConfidence / 100.0) * 0.6
\*   motionScale *= SETTLING_GAIN_SCALE (0.3) in GENTLE_SETTLING
\*   motionScale *= 0.6 for faceSpeed < 5.0 && totalError > 40
\*   motionScale *= constrain((float)faceSize / 55.0, 0.7, 1.2) for faceSize > 0
MotionScale(s, sq) ==
  LET confidenceScale == F32Ratio(400 + 6 * s.faceConfidence, 1000)
      settled == IF s.blindState = "GENTLE_SETTLING"
                 THEN F32Times(confidenceScale, 3, 10) ELSE confidenceScale
      slowed == IF s.faceVX * s.faceVX + s.faceVY * s.faceVY < 5 * 5 /\ sq > 40 * 40
                THEN F32Times(settled, 6, 10) ELSE settled
  IN IF s.faceSize <= 0 THEN slowed
     ELSE F32Mul(slowed, F32Clamp(F32Ratio(s.faceSize, REFERENCE_FACE_WIDTH),
                                  F32Ratio(7, 10), F32Ratio(12, 10)))

\* fault: smoothing without the velocity limit
AngleStepUnlimited(command) == F32Wide(command, -1)

\* velocity limiting and smoothing: the change of the running angle for a command,
\* constrain(command, -MAX_VELOCITY_PER_FRAME, MAX_VELOCITY_PER_FRAME) * 0.5
AngleStep(command) ==
  F32Wide(F32Clamp(command, F32Int(-MAX_VELOCITY_PER_FRAME), F32Int(MAX_VELOCITY_PER_FRAME)),
          -1)

\* angle += step, for an angle in AngleScale
AngleAfter(angle, step) == F32Fixed(F32Sum(F32Of(angle, AngleScale), step), AngleScale)

\* totalError = sqrt(errorX*errorX + errorY*errorY), a float; sq the sum of the squares
ErrorMagnitude(sq) == F32Sqrt(F32Int(sq))
\* trackingQuality = constrain(1.0f - (totalError / 120.0f), 0.0f, 1.0f)
QualityOf(sq) ==
  F32Clamp(F32Sub(F32Int(1), F32Div(ErrorMagnitude(sq), F32Int(120))), F32Zero, F32Int(1))

\* ReflexiveControl::updatePredictiveTracking: [state, panPID, tiltPID]
UpdatePredictiveTracking(s, pp, tp) ==
  LET errorX == AxisError(s, s.faceX - CAMERA_CENTER_X)
      errorY == AxisError(s, s.faceY - CAMERA_CENTER_Y)
      sq == errorX * errorX + errorY * errorY
      commanded(pan, tilt) ==
        [state |-> [s EXCEPT !.panAngle = AngleAfter(@, AngleStep(pan.output)),
                             !.tiltAngle = AngleAfter(@, AngleStep(tilt.output)),
                             !.errorMagnitude = ErrorMagnitude(sq),
                             !.trackingQuality = QualityOf(sq),
                             !.isSettled = (sq < 10 * 10)],
         panPID |-> pan.pid, tiltPID |-> tilt.pid]
      scaled(motionScale) ==
        commanded(PIDUpdate(pp, errorX, sq, motionScale),
                  PIDUpdate(tp, errorY, sq, motionScale))
  IN scaled(MotionScale(s, sq))

\* updateLost, short-term prediction of one axis: the error of
\* predict = face + v * (timeLost / 1000.0) from the centre, a float
PredictedError(face, v, timeLost, centre) ==
  F32Sub(F32Ratio(1000 * face + v * timeLost, 1000), F32Int(centre))

\* angle += error * 0.01 in double, for an angle in AngleScale.  Where angle and
\* error * 0.01 nearly cancel, 100 * angle + error is exact and is divided instead.
AngleWithHundredth(angle, error) ==
  LET cancel(a, h) ==
        /\ a.m # 0 /\ error.m # 0 /\ a.s # error.s
        /\ ~F32Less(F32Scale([h EXCEPT !.s = 1], 1), [error EXCEPT !.s = 1])
        /\ ~F32Less(F32Scale([error EXCEPT !.s = 1], 1), [h EXCEPT !.s = 1])
      added(a, h) ==
        F32Fixed(IF cancel(a, h) THEN F32Times(F32Add(h, error), 1, 100)
                 ELSE F32Sum(a, F32Quotient(error.s, error.m, 100, error.e)),
                 AngleScale)
      hundredfold(a) == added(a, F32Mul(a, F32Int(100)))
  IN hundredfold(F32Of(angle, AngleScale))

\* ReflexiveControl::updateLost, t its own reading of millis():
\* [state, trajectory, isReturningToCenter]
UpdateLost(s, traj, rtc, t) ==
  LET timeLost == t - s.lastFaceTime
  IN IF timeLost < PREDICT_WINDOW_MS
     THEN [state |-> [s EXCEPT
                        !.panAngle = AngleWithHundredth(@, PredictedError(s.faceX, s.faceVX,
                                                          timeLost, CAMERA_CENTER_X)),
                        !.tiltAngle = AngleWithHundredth(@, PredictedError(s.faceY, s.faceVY,
                                                           timeLost, CAMERA_CENTER_Y)),
                        !.blindState = "NORMAL"],
           trajectory |-> traj, isReturningToCenter |-> FALSE]
     ELSE IF timeLost >= RETURN_TO_CENTER_TIMEOUT_MS
     THEN LET plan == ~rtc
              returning(nx) ==
                [state |-> [s EXCEPT !.blindState = IF plan THEN "BLIND_MOVING" ELSE @,
                                     !.blindFrameCounter = IF plan THEN 0 ELSE @,
                                     !.panAngle = IF nx.ok THEN nx.pan ELSE @,
                                     !.tiltAngle = IF nx.ok THEN nx.tilt ELSE @],
                 trajectory |-> nx.traj, isReturningToCenter |-> TRUE]
          IN returning(GetNextPosition(IF plan
                                       THEN PlanReturnToCenter(s.panAngle, s.tiltAngle)
                                       ELSE traj))
     ELSE [state |-> [s EXCEPT !.blindState = "NORMAL"],
           trajectory |-> traj, isReturningToCenter |-> FALSE]

\* fault: the throttle lets a call through after half a period
ThrottledUnderHalf(t, lut) == 2 * (t - lut) < REFLEX_UPDATE_RATE_MS

\* calculate, THROTTLE: now - lastUpdateTime < REFLEX_UPDATE_RATE_MS
IsThrottled(t, lut) == t - lut < REFLEX_UPDATE_RATE_MS

\* ReflexiveControl::calculate(currentBase, currentNod).  The call reads millis() at
\* its start (t: the throttle and lastUpdateTime) and, when it reaches updateLost,
\* once more there (tLost: the time the face has been lost).  The result holds the
\* new values of everything the call writes, with baseOut, nodOut and the returned
\* flag; processed: the call was not throttled; machine: it reached the state
\* machine; clock: its last reading of millis()
CalculateResult(s, pp, tp, traj, rtc, lut, currentBase, currentNod, t, tLost) ==
  IF IsThrottled(t, lut)
  THEN \* throttled
       [state |-> s, panPID |-> pp, tiltPID |-> tp, trajectory |-> traj,
        isReturningToCenter |-> rtc, lastUpdateTime |-> lut, processed |-> FALSE,
        machine |-> FALSE, clock |-> t,
        baseOut |-> s.targetBase, nodOut |-> s.targetNod, ret |-> s.active]
  ELSE
    LET output(s2, panPID2, tiltPID2, traj2, rtc2, read) ==
          [state |-> s2, panPID |-> panPID2, tiltPID |-> tiltPID2,
           trajectory |-> traj2, isReturningToCenter |-> rtc2,
           lastUpdateTime |-> t, processed |-> TRUE, machine |-> TRUE, clock |-> read,
           baseOut |-> s2.targetBase, nodOut |-> s2.targetNod, ret |-> TRUE]
        tracked(bm, sm, pt) ==
          output(WithTargets(pt.state), pt.panPID, pt.tiltPID, sm.trajectory,
                 bm.isReturningToCenter, t)
        lost(ul) ==
          output(WithTargets(ul.state), pp, tp, ul.trajectory, ul.isReturningToCenter,
                 tLost)
        machine(bm, sm) ==
          IF sm.state.controlState \in {"ACQUIRE", "TRACK"}
          THEN tracked(bm, sm, UpdatePredictiveTracking(sm.state, pp, tp))
          ELSE lost(UpdateLost(sm.state, sm.trajectory, bm.isReturningToCenter, tLost))
        blind(bm) ==
          IF bm.returned
          THEN [state |-> bm.state, panPID |-> pp, tiltPID |-> tp,
                trajectory |-> bm.trajectory,
                isReturningToCenter |-> bm.isReturningToCenter,
                lastUpdateTime |-> t, processed |-> TRUE, machine |-> FALSE,
                clock |-> t,
                baseOut |-> bm.state.targetBase, nodOut |-> bm.state.targetNod,
                ret |-> TRUE]
          ELSE machine(bm, StateMachine(bm.state, bm.trajectory))
    IN blind(BlindMachine([s EXCEPT !.panAngle = currentBase * AngleScale,
                                    !.tiltAngle = currentNod * AngleScale],
                          traj, rtc))

(***************************************************************************)
(* HistogramTracker                                                        *)
(*                                                                         *)
(* Frames.  A frame is 240 x 240 RGB565 pixels.  The frames of the model   *)
(* are of one colour: a frame is the value of its pixels, and NoFrame is   *)
(* the null pointer.  Every sample a window takes inside such a frame      *)
(* reads the same pixel, so a sum over a window is the pixel's term times  *)
(* the number of samples, and a region's histogram has one bin.            *)
(*                                                                         *)
(* Numbers.  The confidence of a candidate, a drift penalty and the means   *)
(* of assessQuality are floats.  The confidences the tracker stores and    *)
(* returns are fixed-point numbers, 1.0 = ConfScale: a float of 0.5 or     *)
(* more, and so every confidence that passes CONFIDENCE_THRESHOLD, is held *)
(* exactly.  Ratios of counts and the confidence of a region, which in a   *)
(* frame of one colour is 0, 0.4, 0.6 or 1: 1.0 = Micro, as are the        *)
(* thresholds.  Mean hue, saturation and value: 1 = Micro.  Normalised     *)
(* histogram entries: 1.0 = HistScale.  textureVariance is written by      *)
(* buildSignature and read nowhere; the model leaves it out.               *)
(***************************************************************************)
SIGNATURE_MAX_AGE_MS == 1200
SIGNATURE_MIN_AGE_MS == 400
MAX_HISTOGRAM_FRAMES_GOOD == 12
MAX_HISTOGRAM_FRAMES_POOR == 5
HIST_BINS == 16
BASE_SEARCH_RADIUS == 50
FINE_RADIUS == 6
\* CONFIDENCE_THRESHOLD 0.52, CONFIDENCE_HIGH 0.70, CONFIDENCE_DROP_ALERT 0.08
CONFIDENCE_THRESHOLD == 520000
CONFIDENCE_HIGH == 700000
CONFIDENCE_DROP_ALERT == 80000
\* MIN_REGION_CONFIDENCE 0.45
MIN_REGION_CONFIDENCE == 450000
MIN_REGIONS_PASSING == 2
\* MIN_SKIN_PERCENTAGE 0.20, SKIN_COLLAPSE_THRESHOLD 0.10, SIGNATURE_SKIN_RATIO_MIN 0.28
MIN_SKIN_PERCENTAGE == 200000
SKIN_COLLAPSE_THRESHOLD == 100000
SIGNATURE_SKIN_RATIO_MIN == 280000
QUALITY_HISTORY_SIZE == 5
MAX_POSITION_JUMP == 25
MEAN_HUE_DRIFT_SOFT == 12
MEAN_HUE_DRIFT_HARD == 30
MEAN_SAT_DRIFT_SOFT == 20
MEAN_SAT_DRIFT_HARD == 50
MEAN_VAL_DRIFT_SOFT == 25
MEAN_VAL_DRIFT_HARD == 60
\* MIN_COHERENCE_SCORE 0.42
MIN_COHERENCE_SCORE == 420000
MATCH_DISTANCE_LIMIT == 60
SPEED_THRESHOLD_FAST == 30
SPEED_THRESHOLD_SLOW == 10
SEARCH_RADIUS_FAST == 90
SEARCH_RADIUS_SLOW == 45
SKIN_H_MIN == 0
SKIN_H_MAX == 25
SKIN_S_MIN == 25
SKIN_S_MAX == 95
SKIN_V_MIN == 45
SKIN_V_MAX == 98
\* consecutiveCollapses >= 2 invalidates the signature
COLLAPSE_LIMIT == 2
\* the search keeps the centre of its windows inside [30, 210]
SEARCH_MIN == 30
SEARCH_MAX == 210
\* half the side of a candidate window, and the step of its samples
WINDOW_RADIUS == 15
SAMPLE_STEP == 2

HistScale == 100 * 100
ConfScale == 4096 * 4096

\* a threshold given in Micro, as a wide value
MicroWide(v) == F32Quotient(1, v, Micro, 0)

\* the float of a confidence given in Micro, as the tracker stores it
StoredConfidence(v) == F32Fixed(F32Ratio(v, Micro), ConfScale)

\* the null frame pointer
NoFrame == -1

\* max(a, b), min(a, b)

\* rgb565ToHSV, from the three channels and their extremes
HSVOfRange(r, g, b, maxRGB, delta) ==
  [h |-> Constrain(IF delta = 0 THEN 0
                   ELSE IF maxRGB = r
                        THEN (IF 30 * TruncDiv(g - b, delta) < 0
                              THEN 30 * TruncDiv(g - b, delta) + 180
                              ELSE 30 * TruncDiv(g - b, delta))
                   ELSE IF maxRGB = g THEN 30 * (2 + TruncDiv(b - r, delta))
                   ELSE 30 * (4 + TruncDiv(r - g, delta)),
                   0, 179),
   s |-> Constrain(IF maxRGB = 0 THEN 0 ELSE (delta * 100) \div maxRGB, 0, 100),
   v |-> Constrain((maxRGB * 100) \div 255, 0, 100)]

HSVOfChannels(r, g, b) ==
  HSVOfRange(r, g, b, Max(r, Max(g, b)), Max(r, Max(g, b)) - Min(r, Min(g, b)))

\* rgb565ToHSV
RGB565ToHSV(rgb565) ==
  HSVOfChannels(((rgb565 \div 2048) % 32) * 8, ((rgb565 \div 32) % 64) * 4,
                (rgb565 % 32) * 8)

\* getPixelHSV: outside the frame the pixel reads as 0, 0, 0
GetPixelHSV(frame, x, y) ==
  IF x < 0 \/ x >= 240 \/ y < 0 \/ y >= 240 THEN [h |-> 0, s |-> 0, v |-> 0]
  ELSE RGB565ToHSV(frame)

\* isSkinTone
IsSkinTone(c) ==
  /\ c.h >= SKIN_H_MIN /\ c.h <= SKIN_H_MAX
  /\ c.s >= SKIN_S_MIN /\ c.s <= SKIN_S_MAX
  /\ c.v >= SKIN_V_MIN /\ c.v <= SKIN_V_MAX

\* the histogram bins of a pixel
HueBin(c) == Min((c.h * HIST_BINS) \div 180, HIST_BINS - 1)
SatBin(c) == Min((c.s * HIST_BINS) \div 100, HIST_BINS - 1)

\* the number of turns of for (i = lo; i < hi; i += step)
Samples(lo, hi, step) == IF hi <= lo THEN 0 ELSE (hi - lo + step - 1) \div step

\* the samples a box gives to its top, middle and bottom region, and their sum, from
\* the samples of a row and the rows above topY2, above midY2 and in all
RegionCounts(cols, rowsTop, rowsTopMid, rows) ==
  [top |-> cols * rowsTop, mid |-> cols * (rowsTopMid - rowsTop),
   bot |-> cols * (rows - rowsTopMid), all |-> cols * rows]

\* the split of the box x1 <= x < x2, y1 <= y < y2 in three regions of
\* regionHeight = (y2 - y1) / 3 rows, the last taking the rest
RegionSamples(x1, y1, x2, y2) ==
  RegionCounts(Samples(x1, x2, SAMPLE_STEP),
               Samples(y1, Min(y1 + TruncDiv(y2 - y1, 3), y2), SAMPLE_STEP),
               Samples(y1, Min(y1 + 2 * TruncDiv(y2 - y1, 3), y2), SAMPLE_STEP),
               Samples(y1, y2, SAMPLE_STEP))

\* A normalised histogram is held by its non-zero entries: a function from the bins
\* that hold samples to their share of the region's samples.
\* a histogram with no entry
ZeroHist == <<>>

\* the normalised histogram of a region whose weight samples all fall into bin
RegionHist(bin, weight) == IF weight > 0 THEN bin :> HistScale ELSE ZeroHist

\* sqrt(hist1[i] * hist2[i]) summed over the bins of the set
RECURSIVE BhattacharyyaSum(_, _, _)
BhattacharyyaSum(hist1, hist2, bins) ==
  IF bins = {} THEN 0
  ELSE LET i == CHOOSE b \in bins : TRUE
       IN (IF hist1[i] = hist2[i] THEN hist1[i] ELSE ISqrt(hist1[i] * hist2[i]))
          + BhattacharyyaSum(hist1, hist2, bins \ {i})

\* bhattacharyyaCoefficient, in Micro: bins empty in either histogram add nothing
BhattacharyyaCoefficient(hist1, hist2) ==
  BhattacharyyaSum(hist1, hist2, DOMAIN hist1 \cap DOMAIN hist2) * (Micro \div HistScale)

\* one term of calculateDriftPenalty: the part of the difference above soft, over
\* (float)(hard - soft)
DriftTerm(diff, soft, hard) ==
  IF diff > soft * Micro
  THEN F32Div(F32Sub(F32Ratio(diff, Micro), F32Int(soft)), F32Int(hard - soft))
  ELSE F32Zero

\* 0.4 * a + 0.3 * b + 0.3 * c for floats a, b, c: the products and the sums are
\* doubles, the result is stored in a float
DriftWeighted(a, b, c) ==
  LET weighted(hue, sat) ==
        F32OfD64(D64Add(D64Add(D64Mul(hue, D64OfF32(a)), D64Mul(sat, D64OfF32(b))),
                        D64Mul(sat, D64OfF32(c))))
  IN weighted(D64Ratio(4, 10), D64Ratio(3, 10))

\* calculateDriftPenalty
CalculateDriftPenalty(tr, candMeanH, candMeanS, candMeanV) ==
  LET hueDiff == Abs(candMeanH - tr.meanHue)
      satDiff == Abs(candMeanS - tr.meanSat)
      valDiff == Abs(candMeanV - tr.meanVal)
  IN IF \/ hueDiff > MEAN_HUE_DRIFT_HARD * Micro
        \/ satDiff > MEAN_SAT_DRIFT_HARD * Micro
        \/ valDiff > MEAN_VAL_DRIFT_HARD * Micro
     THEN F32Int(1)
     ELSE DriftWeighted(DriftTerm(hueDiff, MEAN_HUE_DRIFT_SOFT, MEAN_HUE_DRIFT_HARD),
                        DriftTerm(satDiff, MEAN_SAT_DRIFT_SOFT, MEAN_SAT_DRIFT_HARD),
                        DriftTerm(valDiff, MEAN_VAL_DRIFT_SOFT, MEAN_VAL_DRIFT_HARD))

\* calculateCoherence on the window [x1, x1 + width) x [y1, y1 + height) of a frame of
\* one colour, a float: the share of the occupied cells of the 8 x 8 grid that have an
\* occupied neighbour.  The samples lie 2 pixels apart; when the colour is a skin tone
\* every sample is counted, so the occupied cells are the columns that hold a sample
\* crossed with the rows that hold one.
CoherenceOfWindow(cellWidth, cellHeight, width, height, skin) ==
  LET share(occupiedCells, connectedClusters) ==
        IF occupiedCells > 0 THEN F32Div(F32Int(connectedClusters), F32Int(occupiedCells))
        ELSE F32Zero
      grid(cols, rows) ==
        share(Cardinality(cols) * Cardinality(rows),
              Cardinality({c \in rows \X cols :
                             \E dy \in -1..1, dx \in -1..1 :
                               /\ dx # 0 \/ dy # 0
                               /\ c[1] + dy \in rows /\ c[2] + dx \in cols}))
  IN IF cellWidth <= 0 \/ cellHeight <= 0 THEN F32Zero
     ELSE IF ~skin \/ Samples(0, width, 2) * Samples(0, height, 2) < 10 THEN F32Zero
     ELSE grid({Min((2 * i) \div cellWidth, 7) : i \in 0..(Samples(0, width, 2) - 1)},
               {Min((2 * j) \div cellHeight, 7) : j \in 0..(Samples(0, height, 2) - 1)})

CoherenceOfBox(frame, x1, y1, x2, y2) ==
  CoherenceOfWindow(TruncDiv(x2 - x1, 8), TruncDiv(y2 - y1, 8), x2 - x1, y2 - y1,
                    IsSkinTone(GetPixelHSV(frame, x1, y1)))

CalculateCoherence(frame, cx, cy, radius) ==
  CoherenceOfBox(frame, Max(0, cx - radius), Max(0, cy - radius),
                 Min(240, cx + radius), Min(240, cy + radius))

\* evaluateCandidate: the confidence of one region, 0.6 of the hue match and 0.4 of
\* the saturation match, in Micro
RegionConfidence(sigHist, sigSatHist, c, weight) ==
  (6 * BhattacharyyaCoefficient(sigHist, RegionHist(HueBin(c), weight))
   + 4 * BhattacharyyaCoefficient(sigSatHist, RegionHist(SatBin(c), weight))) \div 10

\* evaluateCandidate: the number of regions that pass
RegionsPassing(topConf, midConf, botConf) ==
  (IF topConf >= MIN_REGION_CONFIDENCE THEN 1 ELSE 0)
  + (IF midConf >= MIN_REGION_CONFIDENCE THEN 1 ELSE 0)
  + (IF botConf >= MIN_REGION_CONFIDENCE THEN 1 ELSE 0)

\* evaluateCandidate: (topConf + midConf + botConf) / 3.0 of the three floats
RegionMean(topConf, midConf, botConf) ==
  F32Times(F32Add(F32Add(F32Ratio(topConf, Micro), F32Ratio(midConf, Micro)),
                  F32Ratio(botConf, Micro)), 1, 3)

\* confidence * (1.0 - 0.25 * driftPenalty): the float confidence times a double,
\* stored in a float
DriftDiscount(confidence, driftPenalty) ==
  F32OfD64(D64Mul(D64OfF32(confidence),
                  D64Sub(D64Of(1, 0), D64Mul(D64Of(1, -2), D64OfF32(driftPenalty)))))

\* evaluateCandidate: the result [confidence, skinPercentage, valid] from the counts,
\* the drift penalty and the region confidences
CandidateResult(totalPixels, skinPixels, driftPenalty, topConf, midConf, botConf) ==
  IF totalPixels = 0
  THEN [confidence |-> F32Zero, skinPercentage |-> 0, valid |-> FALSE]
  ELSE IF MulDiv(skinPixels, Micro, totalPixels) < MIN_SKIN_PERCENTAGE
          \/ ~F32Less(driftPenalty, F32Int(1))
          \/ RegionsPassing(topConf, midConf, botConf) < MIN_REGIONS_PASSING
  THEN [confidence |-> F32Zero, skinPercentage |-> MulDiv(skinPixels, Micro, totalPixels),
        valid |-> FALSE]
  ELSE [confidence |-> DriftDiscount(RegionMean(topConf, midConf, botConf), driftPenalty),
        skinPercentage |-> MulDiv(skinPixels, Micro, totalPixels),
        valid |-> TRUE]

\* evaluateCandidate over a window of n samples that all read c
EvaluateWindow(tr, c, n) ==
  CandidateResult(n.all,
                  IF IsSkinTone(c) THEN n.all ELSE 0,
                  CalculateDriftPenalty(tr, c.h * Micro, c.s * Micro, c.v * Micro),
                  RegionConfidence(tr.signatureHistTop, tr.signatureSatHistTop, c, n.top),
                  RegionConfidence(tr.signatureHistMid, tr.signatureSatHistMid, c, n.mid),
                  RegionConfidence(tr.signatureHistBot, tr.signatureSatHistBot, c, n.bot))

\* evaluateCandidate at the box rx1 <= x < rx2, ry1 <= y < ry2
EvaluateBox(tr, frame, rx1, ry1, rx2, ry2) ==
  EvaluateWindow(tr, GetPixelHSV(frame, rx1, ry1), RegionSamples(rx1, ry1, rx2, ry2))

\* evaluateCandidate
EvaluateCandidate(tr, frame, x, y) ==
  EvaluateBox(tr, frame, Max(0, x - WINDOW_RADIUS), Max(0, y - WINDOW_RADIUS),
              Min(240, x + WINDOW_RADIUS), Min(240, y + WINDOW_RADIUS))

\* updateHistory
UpdateHistory(tr, confidence, x, y) ==
  [tr EXCEPT !.confidenceHistory[tr.historyIndex] = confidence,
             !.positionHistoryX[tr.historyIndex] = x,
             !.positionHistoryY[tr.historyIndex] = y,
             !.historyIndex = (tr.historyIndex + 1) % QUALITY_HISTORY_SIZE,
             !.historyCount = IF @ < QUALITY_HISTORY_SIZE THEN @ + 1 ELSE @]

\* the slot of the sample stored i places before the next one to be written
HistorySlot(tr, i) ==
  (tr.historyIndex - i + 2 * QUALITY_HISTORY_SIZE) % QUALITY_HISTORY_SIZE

\* the float sum of the stored confidences number from..to - 1, counted back from the
\* latest and added in that order
RECURSIVE ConfidenceSum(_, _, _)
ConfidenceSum(tr, from, to) ==
  IF from >= to THEN F32Zero
  ELSE F32Add(ConfidenceSum(tr, from, to - 1),
              F32Of(tr.confidenceHistory[HistorySlot(tr, to)], ConfScale))

\* the square of the distance between (x1, y1) and (x2, y2)
DistanceSquared(x1, y1, x2, y2) == (x1 - x2) * (x1 - x2) + (y1 - y2) * (y1 - y2)

\* fault: only the jump between the two latest samples is looked at
JumpSquaredOfLatest(tr, i) ==
  DistanceSquared(tr.positionHistoryX[HistorySlot(tr, 1)],
                  tr.positionHistoryY[HistorySlot(tr, 1)],
                  tr.positionHistoryX[HistorySlot(tr, 2)],
                  tr.positionHistoryY[HistorySlot(tr, 2)])

\* the squared jump between the stored samples i and i + 1 places back
JumpSquared(tr, i) ==
  DistanceSquared(tr.positionHistoryX[HistorySlot(tr, i)],
                  tr.positionHistoryY[HistorySlot(tr, i)],
                  tr.positionHistoryX[HistorySlot(tr, i + 1)],
                  tr.positionHistoryY[HistorySlot(tr, i + 1)])

\* assessQuality: the class from the two averages and the stability of the position
QualityClass(recentAvg, olderAvg, olderCount, positionStable) ==
  IF \/ /\ olderCount > 0
        /\ F32Below(recentAvg, F32WideSum(olderAvg, WideNeg(MicroWide(CONFIDENCE_DROP_ALERT))))
     \/ ~positionStable
  THEN "POOR"
  ELSE IF ~F32Below(recentAvg, MicroWide(CONFIDENCE_HIGH)) /\ positionStable THEN "GOOD"
  ELSE "MODERATE"

\* assessQuality
AssessQuality(tr) ==
  IF tr.historyCount < 3 THEN "MODERATE"
  ELSE QualityClass(F32Div(ConfidenceSum(tr, 0, 2), F32Int(2)),
                    F32Div(ConfidenceSum(tr, 2, tr.historyCount),
                           F32Int(tr.historyCount - 2)),
                    tr.historyCount - 2,
                    \A i \in 1..(tr.historyCount - 1) :
                      JumpSquared(tr, i) < MAX_POSITION_JUMP * MAX_POSITION_JUMP)

\* fault: every quality gets the budget of GOOD
GetMaxFramesAsForGood(quality) == MAX_HISTOGRAM_FRAMES_GOOD

\* getMaxFramesForQuality
GetMaxFramesForQuality(quality) ==
  CASE quality = "GOOD" -> MAX_HISTOGRAM_FRAMES_GOOD
    [] quality = "MODERATE" -> (MAX_HISTOGRAM_FRAMES_GOOD + MAX_HISTOGRAM_FRAMES_POOR) \div 2
    [] OTHER -> MAX_HISTOGRAM_FRAMES_POOR

\* HistogramTracker::reset, which the constructor runs
TrackerResetState ==
  [signatureHistTop |-> ZeroHist, signatureHistMid |-> ZeroHist,
   signatureHistBot |-> ZeroHist,
   signatureSatHistTop |-> ZeroHist, signatureSatHistMid |-> ZeroHist,
   signatureSatHistBot |-> ZeroHist,
   meanHue |-> 0, meanSat |-> 0, meanVal |-> 0,
   signatureSkinRatio |-> 0, signaturePixelCount |-> 0, signatureValid |-> FALSE,
   centerX |-> 120, centerY |-> 120, searchRadius |-> BASE_SEARCH_RADIUS,
   signatureTime |-> 0, histogramOnlyFrames |-> 0,
   confidenceHistory |-> [i \in 0..(QUALITY_HISTORY_SIZE - 1) |-> 0],
   positionHistoryX |-> [i \in 0..(QUALITY_HISTORY_SIZE - 1) |-> 120],
   positionHistoryY |-> [i \in 0..(QUALITY_HISTORY_SIZE - 1) |-> 120],
   historyIndex |-> 0, historyCount |-> 0,
   consecutiveStableFrames |-> 0, consecutiveCollapses |-> 0,
   lastMatchX |-> 120, lastMatchY |-> 120, lastConfidence |-> 0]

\* buildSignature without the reset of the frame budget and the history
BuildSignatureKeepingEpisode(tr, faceX, faceY, c, n, signatureSkinRatio, t) ==
  [tr EXCEPT !.signaturePixelCount = n.all,
             !.signatureSkinRatio = signatureSkinRatio,
             !.signatureTime = t,
             !.signatureValid = tr.signatureValid \/ n.all > 0]

\* buildSignature at time t, from the n samples of the box, which all read c
SignatureOfWindow(tr, faceX, faceY, c, n, signatureSkinRatio, t) ==
  [tr EXCEPT
     !.signatureHistTop = RegionHist(HueBin(c), n.top),
     !.signatureHistMid = RegionHist(HueBin(c), n.mid),
     !.signatureHistBot = RegionHist(HueBin(c), n.bot),
     !.signatureSatHistTop = RegionHist(SatBin(c), n.top),
     !.signatureSatHistMid = RegionHist(SatBin(c), n.mid),
     !.signatureSatHistBot = RegionHist(SatBin(c), n.bot),
     !.signaturePixelCount = n.all,
     !.meanHue = IF n.all > 0 THEN c.h * Micro ELSE @,
     !.meanSat = IF n.all > 0 THEN c.s * Micro ELSE @,
     !.meanVal = IF n.all > 0 THEN c.v * Micro ELSE @,
     !.signatureSkinRatio = signatureSkinRatio,
     !.centerX = faceX, !.centerY = faceY,
     !.signatureTime = t,
     !.histogramOnlyFrames = 0,
     !.consecutiveCollapses = 0,
     !.consecutiveStableFrames = 0,
     !.lastMatchX = faceX, !.lastMatchY = faceY,
     !.lastConfidence = ConfScale,
     !.historyIndex = 0, !.historyCount = 0,
     !.signatureValid = n.all > 0 /\ signatureSkinRatio >= SIGNATURE_SKIN_RATIO_MIN]

\* skinPixels / count in Micro, 0 for an empty box
SkinRatio(skinPixels, count) ==
  IF count > 0 THEN MulDiv(skinPixels, Micro, count) ELSE 0

\* buildSignature from the n samples of the box, which all read c
SignatureOfSamples(tr, faceX, faceY, c, n, t) ==
  SignatureOfWindow(tr, faceX, faceY, c, n,
                    SkinRatio(IF IsSkinTone(c) THEN n.all ELSE 0, n.all), t)

\* buildSignature over the box x1 <= x < x2, y1 <= y < y2
SignatureOfBox(tr, frame, faceX, faceY, x1, y1, x2, y2, t) ==
  SignatureOfSamples(tr, faceX, faceY, GetPixelHSV(frame, x1, y1),
                     RegionSamples(x1, y1, x2, y2), t)

\* buildSignature(frame, faceX, faceY, faceW, faceH) at time t
BuildSignatureState(tr, frame, faceX, faceY, faceW, faceH, t) ==
  IF frame = NoFrame THEN tr
  ELSE SignatureOfBox(tr, frame, faceX, faceY,
                      Max(0, faceX - TruncDiv(faceW, 2) - 5),
                      Max(0, faceY - TruncDiv(faceH, 2) - 5),
                      Min(240, faceX + TruncDiv(faceW, 2) + 5),
                      Min(240, faceY + TruncDiv(faceH, 2) + 5), t)

\* track: the search radius for a servo speed
SearchRadiusFor(servoSpeed) ==
  IF servoSpeed > SPEED_THRESHOLD_FAST THEN SEARCH_RADIUS_FAST
  ELSE IF servoSpeed < SPEED_THRESHOLD_SLOW THEN SEARCH_RADIUS_SLOW
  ELSE SEARCH_RADIUS_SLOW
       + ((servoSpeed - SPEED_THRESHOLD_SLOW) * (SEARCH_RADIUS_FAST - SEARCH_RADIUS_SLOW))
           \div (SPEED_THRESHOLD_FAST - SPEED_THRESHOLD_SLOW)

\* a best candidate of a search
Best(conf, x, y, skin) == [conf |-> conf, x |-> x, y |-> y, skin |-> skin]

\* track, stage 1: the best of the coarse grid xStart <= x < xEnd, yStart <= y < yEnd.
\* A candidate replaces the best only with a greater confidence, and in a frame of one
\* colour all candidates score alike: the best is the first of the grid, if it is
\* valid; result is what evaluateCandidate gives for it.
CoarseBest(searchCenterX, searchCenterY, xStart, xEnd, yStart, yEnd, result) ==
  IF xStart < xEnd /\ yStart < yEnd /\ result.valid /\ F32Less(F32Zero, result.confidence)
  THEN Best(result.confidence, xStart, yStart, result.skinPercentage)
  ELSE Best(F32Zero, searchCenterX, searchCenterY, 0)

CoarseSearch(tr, frame, searchCenterX, searchCenterY, radius) ==
  CoarseBest(searchCenterX, searchCenterY,
             Max(SEARCH_MIN, searchCenterX - radius),
             Min(SEARCH_MAX, searchCenterX + radius),
             Max(SEARCH_MIN, searchCenterY - radius),
             Min(SEARCH_MAX, searchCenterY + radius),
             EvaluateCandidate(tr, frame, Max(SEARCH_MIN, searchCenterX - radius),
                               Max(SEARCH_MIN, searchCenterY - radius)))

\* track, stage 2: the best of the fine grid around the coarse best.  The coarse point
\* itself is skipped; the other candidates of a frame of one colour score alike, so the
\* first of them, at (x, y) with the given result, stands for all.
FineBest(coarse, x, y, result) ==
  IF result.valid /\ F32Less(coarse.conf, result.confidence)
  THEN Best(result.confidence, x, y, result.skinPercentage)
  ELSE coarse

FineSearchFrom(tr, frame, coarse, x, y) ==
  FineBest(coarse, x, y, EvaluateCandidate(tr, frame, x, y))

FineSearch(tr, frame, coarse) ==
  FineSearchFrom(tr, frame, coarse,
                 IF Max(SEARCH_MIN, coarse.x - FINE_RADIUS) = coarse.x
                    /\ Max(SEARCH_MIN, coarse.y - FINE_RADIUS) = coarse.y
                 THEN coarse.x + 1
                 ELSE Max(SEARCH_MIN, coarse.x - FINE_RADIUS),
                 Max(SEARCH_MIN, coarse.y - FINE_RADIUS))

\* the consecutive collapses after a call that passed the collapse check
CollapsesKept(n) == n
CollapsesAfterPass(n) == 0

\* what track returns: the tracker after the call, the return value, the exit taken,
\* and the caller's output variables
Returned(tr, ret, exit, outX, outY, outConfidence) ==
  [tracker |-> tr, ret |-> ret, exit |-> exit,
   outX |-> outX, outY |-> outY, outConfidence |-> outConfidence]

\* fault: a rejected match ends the run of stable frames
TrackRejectedEndingRun(tr, exit, out) ==
  Returned([tr EXCEPT !.histogramOnlyFrames = @ + 1, !.consecutiveStableFrames = 0],
           FALSE, exit, out.outX, out.outY, out.outConfidence)

\* a track call that fails after the collapse check
TrackRejected(tr, exit, out) ==
  Returned([tr EXCEPT !.histogramOnlyFrames = @ + 1], FALSE, exit,
           out.outX, out.outY, out.outConfidence)

\* fault: the confidence returned is the mean of the match's and the last match's
TrackSuccessSmoothed(tr, x, y, finalConfidence, stable) ==
  Returned([UpdateHistory(tr, finalConfidence, x, y) EXCEPT
              !.consecutiveStableFrames = IF stable THEN @ + 1 ELSE 0,
              !.lastMatchX = x, !.lastMatchY = y,
              !.lastConfidence = finalConfidence,
              !.centerX = x, !.centerY = y,
              !.histogramOnlyFrames = @ + 1],
           TRUE, "success", x, y, (finalConfidence + tr.lastConfidence) \div 2)

\* track, success: the match (x, y) with finalConfidence is stored and returned
TrackSuccess(tr, x, y, finalConfidence, stable) ==
  Returned([UpdateHistory(tr, finalConfidence, x, y) EXCEPT
              !.consecutiveStableFrames = IF stable THEN @ + 1 ELSE 0,
              !.lastMatchX = x, !.lastMatchY = y,
              !.lastConfidence = finalConfidence,
              !.centerX = x, !.centerY = y,
              !.histogramOnlyFrames = @ + 1],
           TRUE, "success", x, y, finalConfidence)

\* track, the final confidence check
TrackFinal(tr, fine, finalConfidence, out) ==
  IF F32Below(finalConfidence, MicroWide(CONFIDENCE_THRESHOLD))
  THEN TrackRejected(tr, "confidence", out)
  ELSE TrackSuccess(tr, fine.x, fine.y, F32Fixed(finalConfidence, ConfScale),
                    DistanceSquared(fine.x, fine.y, tr.lastMatchX, tr.lastMatchY)
                      < MAX_POSITION_JUMP * MAX_POSITION_JUMP)

\* finalConfidence * (0.92 + 0.08 * coherence): the float finalConfidence times a
\* double, stored in a float
CoherenceBonus(finalConfidence, coherence) ==
  F32OfD64(D64Mul(D64OfF32(finalConfidence),
                  D64Add(D64Ratio(92, 100),
                         D64Mul(D64Ratio(8, 100), D64OfF32(coherence)))))

\* finalConfidence * (1.0 - (dist / (float)searchRadius) * 0.03) for the float
\* dist = sqrt(distSquared): a float quotient, then doubles, stored in a float
ProximityBonus(finalConfidence, distSquared, searchRadius) ==
  F32OfD64(D64Mul(D64OfF32(finalConfidence),
                  D64Sub(D64Of(1, 0),
                         D64Mul(D64OfF32(F32Div(F32Sqrt(F32Int(distSquared)),
                                                F32Int(searchRadius))),
                                D64Ratio(3, 100)))))

\* track, validation of the fine best: coherence, distance from the predicted
\* position (distSquared), proximity bonus
TrackValidate(tr, fine, coherence, distSquared, out) ==
  IF F32Below(coherence, MicroWide(MIN_COHERENCE_SCORE))
  THEN TrackRejected(tr, "coherence", out)
  ELSE IF distSquared > MATCH_DISTANCE_LIMIT * MATCH_DISTANCE_LIMIT
  THEN TrackRejected(tr, "distance", out)
  ELSE TrackFinal(tr, fine,
                  ProximityBonus(CoherenceBonus(fine.conf, coherence), distSquared,
                                 tr.searchRadius),
                  out)

\* track, stage 2 and validation
TrackFine(tr, frame, predictedX, predictedY, fine, out) ==
  TrackValidate(tr, fine, CalculateCoherence(frame, fine.x, fine.y, WINDOW_RADIUS),
                DistanceSquared(fine.x, fine.y, predictedX, predictedY), out)

\* track, after the collapse check: the coarse confidence check, then stage 2
TrackPassed(tr, frame, predictedX, predictedY, coarse, out) ==
  IF F32Below(coarse.conf, F32Quotient(1, CONFIDENCE_THRESHOLD * 9, 10 * Micro, 0))
  THEN TrackRejected(tr, "coarse", out)
  ELSE TrackFine(tr, frame, predictedX, predictedY, FineSearch(tr, frame, coarse), out)

\* track, the skin collapse check
TrackCoarse(tr, frame, predictedX, predictedY, coarse, out) ==
  IF coarse.skin < SKIN_COLLAPSE_THRESHOLD
  THEN Returned([tr EXCEPT !.consecutiveCollapses = @ + 1,
                           !.signatureValid = IF tr.consecutiveCollapses + 1 >= COLLAPSE_LIMIT
                                              THEN FALSE ELSE @,
                           !.histogramOnlyFrames = @ + 1],
                FALSE, "collapse", out.outX, out.outY, out.outConfidence)
  ELSE TrackPassed([tr EXCEPT !.consecutiveCollapses = CollapsesAfterPass(@)],
                   frame, predictedX, predictedY, coarse, out)

\* track, from the adaptive search radius on
TrackSearch(tr, frame, predictedX, predictedY, out) ==
  TrackCoarse(tr, frame, predictedX, predictedY,
              CoarseSearch(tr, frame, Constrain(predictedX, SEARCH_MIN, SEARCH_MAX),
                           Constrain(predictedY, SEARCH_MIN, SEARCH_MAX), tr.searchRadius),
              out)

\* fault: track searches without looking at the validity or the age of the signature
TrackResultOnAnySignature(tr, frame, predictedX, predictedY, servoSpeed, t, out) ==
  IF frame = NoFrame
  THEN Returned(tr, FALSE, "unusable", out.outX, out.outY, out.outConfidence)
  ELSE TrackSearch([tr EXCEPT !.searchRadius = SearchRadiusFor(servoSpeed)],
                   frame, predictedX, predictedY, out)

\* track(frame, outX, outY, outConfidence, predictedX, predictedY, servoSpeed) at
\* time t; out holds the caller's output variables before the call
TrackResult(tr, frame, predictedX, predictedY, servoSpeed, t, out) ==
  IF frame = NoFrame \/ ~tr.signatureValid \/ tr.signaturePixelCount = 0
  THEN Returned(tr, FALSE, "unusable", out.outX, out.outY, out.outConfidence)
  ELSE IF t - tr.signatureTime > SIGNATURE_MAX_AGE_MS
  THEN Returned([tr EXCEPT !.signatureValid = FALSE], FALSE, "age",
                out.outX, out.outY, out.outConfidence)
  ELSE IF /\ t - tr.signatureTime > SIGNATURE_MIN_AGE_MS
          /\ tr.histogramOnlyFrames >= GetMaxFramesForQuality(AssessQuality(tr))
  THEN Returned([tr EXCEPT !.signatureValid = FALSE], FALSE, "budget",
                out.outX, out.outY, out.outConfidence)
  ELSE TrackSearch([tr EXCEPT !.searchRadius = SearchRadiusFor(servoSpeed)],
                   frame, predictedX, predictedY, out)

\* fault: isSignatureValid does not look at the age
IsSignatureValidAtAnyAge(tr, t) == tr.signatureValid

\* isSignatureValid at time t
IsSignatureValid(tr, t) ==
  tr.signatureValid /\ t - tr.signatureTime <= SIGNATURE_MAX_AGE_MS

\* invalidate
InvalidateState(tr) == [tr EXCEPT !.signatureValid = FALSE]

(***************************************************************************)
(* The drivers: bounds and inputs                                          *)
(*                                                                         *)
(* Drivers of the core.  The free driver makes any call at any time,       *)
(* MaxCalls calls in all.  The loop driver is a control loop on an enabled *)
(* core: it lets one period pass and calls calculate, MaxTicks times; in   *)
(* between it may deliver a report, MaxReports in all, and stall once.     *)
(* The watch driver is a host loop on an enabled core that calls           *)
(* checkTimeout and calculate every period, MaxWatchTicks times; reports   *)
(* arrive only before tick WatchFeedTicks, then the feed is silent until   *)
(* the core has gone LOST.                                                 *)
(* The scene driver is the loop driver without stalls on a scene of its    *)
(* own: before each of its first ticks it delivers the next of             *)
(* SceneReports, at the start or at the end of the period, and may set a   *)
(* confidence of 70 or more.                                               *)
(* The tracker driver makes any call of the tracker at any time,           *)
(* MaxTrackerCalls calls in all.  The camera driver, MaxCameraCalls calls  *)
(* in all, builds a signature when the tracker holds none and then lets    *)
(* time pass and tracks for as long as the tracker holds one; after its    *)
(* first CameraUnsteadyCalls calls the predicted position stays the same.  *)
(* The quality driver calls assessQuality on a tracker with any stored     *)
(* history.  The trajectory driver plans, steps and cancels a              *)
(* GentleTrajectory in any order.  The intent driver runs the control      *)
(* loop of an enabled core that receives no position report, MaxIntentTicks*)
(* ticks in all with at most one stall, while the host calls enable() and  *)
(* faceLost() between ticks.                                               *)
(***************************************************************************)
MaxCalls == 6
MaxTicks == 11
MaxReports == 2
MaxTrackerCalls == 5
MaxWatchTicks == 200
WatchFeedTicks == 3
MaxCameraCalls == 16
MaxIntentTicks == 18
CameraUnsteadyCalls == 9
\* free driver: the time between two calls - none, half a period, a period, a long wait
TimeSteps == {10, 20, 500}
\* the ticks of millis() between the two readings of a calculate call that reaches
\* updateLost, besides none
ClockTicks == {1}
\* loop driver: the length of a stall
LoopPauses == {RETURN_TO_CENTER_TIMEOUT_MS}
\* position reports <<x, y, size>>: next to the centre, inside the acquire threshold,
\* and two opposite corners outside the frame
Reports == {<<121, 121, 55>>, <<135, 118, 70>>, <<-5, 300, 70>>, <<300, -5, 0>>}
\* confidences, below and above the range
Confidences == {-5, 150}
\* current servo angles handed to calculate by the free driver, besides the last
\* scene driver: the reports <<x, y, size>> of a face close to the centre, in the
\* order they arrive
SceneReports == <<<<122, 121, 70>>, <<121, 122, 70>>, <<120, 123, 70>>>>
\* targets: the centre, and a pair outside the servo range
Angles == {<<90, 115>>, <<200, 0>>}

\* tracker driver: the time between two calls, above SIGNATURE_MIN_AGE_MS
FrameSteps == {500}
\* frames: none; three skin tones - the second in another saturation bin than the
\* first, the third beyond the hard saturation drift from the first; and a blue frame
Frames == {NoFrame, 52431, 52172, 63810, 4441}
\* face boxes <<faceX, faceY, faceW, faceH>>: inside the frame, and below it
Boxes == {<<60, 60, 40, 40>>, <<120, 250, 40, 0>>}
\* track arguments <<predictedX, predictedY, servoSpeed>>: the defaults, and a position
\* within reach of the frame's corner at a speed between the two thresholds
Pursuits == {<<120, 120, 0>>, <<60, 60, 20>>}

\* camera driver: the time between two calls; the signature is SIGNATURE_MIN_AGE_MS
\* old after one step, SIGNATURE_MAX_AGE_MS old after three, and older after four
CameraSteps == {400}
\* camera driver: one skin tone, the face boxes of the tracker driver, and three
\* predicted positions: the steady one, one whose match lies MAX_POSITION_JUMP from
\* the match of the steady one, and one out of reach of any match
CameraFrames == {52431}
CameraSteady == <<60, 60, 20>>
CameraPursuits == {CameraSteady, <<100, 60, 0>>, <<120, 120, 0>>}

\* quality driver: the samples <<confidence, x, y>> a history may hold; the first and
\* the third, and the first and the last, lie MAX_POSITION_JUMP apart
QualitySamples ==
  {<<StoredConfidence(720000), 30, 30>>, <<StoredConfidence(550000), 30, 30>>,
   <<StoredConfidence(650000), 50, 45>>, <<StoredConfidence(720000), 55, 30>>}
\* quality driver: <<historyCount, historyIndex>>; the two are equal until the ring
\* is full
QualityFills ==
  {<<n, n>> : n \in 0..(QUALITY_HISTORY_SIZE - 1)}
    \cup {<<QUALITY_HISTORY_SIZE, i>> : i \in 0..(QUALITY_HISTORY_SIZE - 1)}

\* trackCall before any call
NoTrackCall ==
  [op |-> "none", exit |-> "none", ret |-> FALSE,
   outX |-> 0, outY |-> 0, outConfidence |-> 0,
   args |-> <<>>,    \* <<frame, predictedX, predictedY, servoSpeed>> of the last track
   trail |-> <<>>]   \* what the track calls that searched found at the collapse
                     \* check, since the last buildSignature or reset

\* the exits of track calls that return before the search
EarlyExits == {"unusable", "age", "budget"}

(***************************************************************************)
(* Initial states: the constructor runs reset(); the loop driver starts    *)
(* after enable()                                                          *)
(***************************************************************************)
InitCore ==
  /\ panPID = PIDReset
  /\ tiltPID = PIDReset
  /\ trajectory = TrajectoryInit
  /\ lastUpdateTime = 0
  /\ isReturningToCenter = FALSE
  /\ lastFaceX = CAMERA_CENTER_X
  /\ lastFaceY = CAMERA_CENTER_Y
  /\ lastVelocityTime = 0
  /\ lastCheck = 0
  /\ now = 0
  /\ call = NoCall
  /\ hist = HistInit
  /\ tracker = TrackerResetState
  /\ trackCall = NoTrackCall

Init ==
  /\ InitCore
  /\ state = ResetState
  /\ driver = "free"

InitLoop ==
  /\ InitCore
  /\ state = EnableState(ResetState)
  /\ driver = "loop"

InitScene ==
  /\ InitCore
  /\ state = EnableState(ResetState)
  /\ driver = "scene"

InitTracker ==
  /\ InitCore
  /\ state = ResetState
  /\ driver = "tracker"

InitCamera ==
  /\ InitCore
  /\ state = ResetState
  /\ driver = "camera"

\* a tracker whose history slots hold the samples f, historyCount of them stored
TrackerWithHistory(f, historyCount, historyIndex) ==
  [TrackerResetState EXCEPT
     !.confidenceHistory = [i \in 0..(QUALITY_HISTORY_SIZE - 1) |-> f[i][1]],
     !.positionHistoryX = [i \in 0..(QUALITY_HISTORY_SIZE - 1) |-> f[i][2]],
     !.positionHistoryY = [i \in 0..(QUALITY_HISTORY_SIZE - 1) |-> f[i][3]],
     !.historyCount = historyCount,
     !.historyIndex = historyIndex]

\* the quality driver starts from any history: slots beyond historyCount hold what
\* track stored before the last buildSignature
InitQuality ==
  /\ panPID = PIDReset
  /\ tiltPID = PIDReset
  /\ trajectory = TrajectoryInit
  /\ lastUpdateTime = 0
  /\ isReturningToCenter = FALSE
  /\ lastFaceX = CAMERA_CENTER_X
  /\ lastFaceY = CAMERA_CENTER_Y
  /\ lastVelocityTime = 0
  /\ lastCheck = 0
  /\ now = 0
  /\ call = NoCall
  /\ hist = HistInit
  /\ \E f \in [0..(QUALITY_HISTORY_SIZE - 1) -> QualitySamples], c \in QualityFills :
       tracker = TrackerWithHistory(f, c[1], c[2])
  /\ trackCall = NoTrackCall
  /\ state = ResetState
  /\ driver = "quality"

InitWatch ==
  /\ InitCore
  /\ state = EnableState(ResetState)
  /\ driver = "watch"

InitIntent ==
  /\ InitCore
  /\ state = EnableState(ResetState)
  /\ driver = "intent"

(***************************************************************************)
(* Actions                                                                 *)
(***************************************************************************)
\* the free driver may make one more call
FreeCall == driver = "free" /\ hist.calls < MaxCalls

\* the history after that call
Counted(h) == [h EXCEPT !.calls = @ + 1]

\* free driver: time passes between two calls
Advance ==
  /\ FreeCall
  /\ \E d \in TimeSteps : now' = now + d
  /\ hist' = Counted(hist)
  /\ call' = NoCall
  /\ UNCHANGED <<reflexVars, driver, trackerVars>>

\* loop drivers: the host loop takes its periods and stalls from the reading of
\* millis() that opened the last processed call of calculate
PeriodStart ==
  IF now - lastUpdateTime < REFLEX_UPDATE_RATE_MS THEN lastUpdateTime ELSE now

\* loop driver: one period passes, calculate is due
LoopPeriod ==
  /\ driver \in {"loop", "scene", "intent"}
  /\ ~hist.due
  /\ hist.ticks < (IF driver = "intent" THEN MaxIntentTicks ELSE MaxTicks)
  /\ now' = PeriodStart + REFLEX_UPDATE_RATE_MS
  /\ hist' = [hist EXCEPT !.due = TRUE]
  /\ call' = NoCall
  /\ UNCHANGED <<reflexVars, driver, trackerVars>>

\* loop driver: the loop stalls
LoopStall ==
  /\ driver \in {"loop", "intent"}
  /\ ~hist.due
  /\ ~hist.paused
  /\ \E d \in LoopPauses : now' = PeriodStart + d
  /\ hist' = [hist EXCEPT !.paused = TRUE]
  /\ call' = NoCall
  /\ UNCHANGED <<reflexVars, driver, trackerVars>>

\* watch driver: one period passes and the host loop calls checkTimeout(), calculate
\* is due
WatchCheckTimeout ==
  /\ driver = "watch"
  /\ ~hist.due
  /\ hist.ticks < MaxWatchTicks
  /\ now' = PeriodStart + REFLEX_UPDATE_RATE_MS
  /\ \E r \in {CheckTimeoutResult(state, lastCheck, PeriodStart + REFLEX_UPDATE_RATE_MS)} :
       /\ state' = r.state
       /\ lastCheck' = r.lastCheck
  /\ hist' = [hist EXCEPT !.due = TRUE]
  /\ call' = NoCall
  /\ UNCHANGED <<panPID, tiltPID, trajectory, lastUpdateTime, isReturningToCenter,
                 lastFaceX, lastFaceY, lastVelocityTime, driver, trackerVars>>

\* reset(): the trajectory object and the static of checkTimeout are not touched
Reset ==
  /\ FreeCall
  /\ state' = ResetState
  /\ panPID' = PIDReset
  /\ tiltPID' = PIDReset
  /\ lastUpdateTime' = 0
  /\ isReturningToCenter' = FALSE
  /\ lastFaceX' = CAMERA_CENTER_X
  /\ lastFaceY' = CAMERA_CENTER_Y
  /\ lastVelocityTime' = 0
  /\ hist' = Counted([hist EXCEPT !.accepted = FALSE, !.run = 0, !.further = 0,
                                  !.quiet = 0, !.invalid = 0, !.returning = 0])
  /\ call' = NoCall
  /\ UNCHANGED <<trajectory, lastCheck, now, driver, trackerVars>>

Enable ==
  /\ FreeCall \/ (driver = "intent" /\ ~hist.due)
  /\ state' = EnableState(state)
  /\ hist' = IF driver = "free" THEN Counted(hist) ELSE hist
  /\ call' = NoCall
  /\ UNCHANGED <<panPID, tiltPID, trajectory, lastUpdateTime, isReturningToCenter,
                 lastFaceX, lastFaceY, lastVelocityTime, lastCheck, now, driver, trackerVars>>

Disable ==
  /\ FreeCall
  /\ state' = DisableState(state)
  /\ hist' = Counted(hist)
  /\ call' = NoCall
  /\ UNCHANGED <<panPID, tiltPID, trajectory, lastUpdateTime, isReturningToCenter,
                 lastFaceX, lastFaceY, lastVelocityTime, lastCheck, now, driver, trackerVars>>

FaceLost ==
  /\ FreeCall \/ (driver = "intent" /\ ~hist.due)
  /\ state' = FaceLostState(state)
  /\ hist' = IF driver = "free" THEN Counted(hist) ELSE hist
  /\ call' = NoCall
  /\ UNCHANGED <<panPID, tiltPID, trajectory, lastUpdateTime, isReturningToCenter,
                 lastFaceX, lastFaceY, lastVelocityTime, lastCheck, now, driver, trackerVars>>

CheckTimeout ==
  /\ FreeCall
  /\ \E r \in {CheckTimeoutResult(state, lastCheck, now)} :
       /\ state' = r.state
       /\ lastCheck' = r.lastCheck
  /\ hist' = Counted(hist)
  /\ call' = NoCall
  /\ UNCHANGED <<panPID, tiltPID, trajectory, lastUpdateTime, isReturningToCenter,
                 lastFaceX, lastFaceY, lastVelocityTime, now, driver, trackerVars>>

UpdateFaceData ==
  /\ IF driver = "free" THEN hist.calls < MaxCalls
     ELSE IF driver = "scene" THEN hist.reports < Len(SceneReports) /\ hist.reports = hist.ticks
     ELSE ~hist.due /\ hist.reports < MaxReports
  /\ driver = "watch" => hist.ticks < WatchFeedTicks \/ state.controlState = "LOST"
  /\ \E p \in (IF driver = "scene" THEN {SceneReports[hist.reports + 1]} ELSE Reports) :
     \E r \in {UpdateFaceDataResult(state, lastFaceX, lastFaceY, lastVelocityTime,
                                   p[1], p[2], p[3], 100, now)} :
       /\ state' = r.state
       /\ lastFaceX' = r.lastFaceX
       /\ lastFaceY' = r.lastFaceY
       /\ lastVelocityTime' = r.lastVelocityTime
       /\ hist' = [hist EXCEPT !.accepted = @ \/ r.accepted, !.quiet = 0,
                               !.returning = 0,
                               !.calls = IF driver = "free" THEN @ + 1 ELSE @,
                               !.reports = IF driver = "free" THEN @ ELSE @ + 1]
  /\ call' = NoCall
  /\ UNCHANGED <<panPID, tiltPID, trajectory, lastUpdateTime, isReturningToCenter,
                 lastCheck, now, driver, trackerVars>>

UpdateConfidence ==
  /\ IF driver = "scene" THEN hist.reports > hist.ticks ELSE FreeCall
  /\ \E c \in (IF driver = "scene" THEN {70, 85} ELSE Confidences) :
       state' = UpdateConfidenceState(state, c)
  /\ hist' = IF driver = "scene" THEN hist ELSE Counted(hist)
  /\ call' = NoCall
  /\ UNCHANGED <<panPID, tiltPID, trajectory, lastUpdateTime, isReturningToCenter,
                 lastFaceX, lastFaceY, lastVelocityTime, lastCheck, now, driver, trackerVars>>

\* the history after a calculate call made in state s that gave r
Ticked(h, s, r) ==
  IF ~r.processed THEN h
  ELSE LET entered == s.controlState = "LOST" /\ r.state.controlState = "ACQUIRE"
           valid == r.machine /\ FaceDetected(s)
       IN [h EXCEPT !.run = IF valid THEN @ + 1 ELSE 0,
                    !.invalid = IF valid THEN 0 ELSE @ + 1,
                    !.further = IF valid /\ ~entered THEN @ + 1 ELSE 0,
                    !.quiet = IF @ > 0 \/ s.controlState \in {"ACQUIRE", "TRACK"}
                              THEN @ + 1 ELSE 0,
                    !.returning = IF r.state.controlState # "LOST" THEN 0
                                  ELSE IF @ > 0 THEN @ + 1
                                  ELSE IF /\ r.state.blindState = "BLIND_MOVING"
                                          /\ r.state.blindFrameCounter = 0
                                  THEN 1 ELSE 0]

\* calculate(currentBase, currentNod): the free driver hands in any of Angles or the
\* last targets, the loop driver the last targets (the servos have followed).  A call
\* that reaches updateLost reads millis() a second time, and the counter may have
\* ticked since the first reading.
Calculate ==
  /\ IF driver = "free" THEN hist.calls < MaxCalls ELSE hist.due
  /\ driver = "scene" => hist.reports > hist.ticks \/ hist.reports = Len(SceneReports)
  /\ \E a \in (IF driver = "free" THEN Angles ELSE {})
                \cup {<<state.targetBase, state.targetNod>>} :
     \E r0 \in {CalculateResult(state, panPID, tiltPID, trajectory, isReturningToCenter,
                               lastUpdateTime, a[1], a[2], now, now)} :
     \E r \in {r0} \cup
               {CalculateResult(state, panPID, tiltPID, trajectory, isReturningToCenter,
                                lastUpdateTime, a[1], a[2], now, now + d) :
                  d \in IF r0.machine /\ r0.state.controlState = "LOST"
                        THEN ClockTicks ELSE {}} :
       /\ now' = r.clock
       /\ state' = r.state
       /\ panPID' = r.panPID
       /\ tiltPID' = r.tiltPID
       /\ trajectory' = r.trajectory
       /\ isReturningToCenter' = r.isReturningToCenter
       /\ lastUpdateTime' = r.lastUpdateTime
       /\ call' = [op |-> "calculate", processed |-> r.processed,
                   valid |-> r.machine /\ FaceDetected(state),
                   curBase |-> a[1], curNod |-> a[2],
                   baseOut |-> r.baseOut, nodOut |-> r.nodOut, ret |-> r.ret,
                   preControl |-> state.controlState, preBlind |-> state.blindState,
                   preTrajectory |-> trajectory.active]
       /\ hist' = [Ticked(hist, state, r) EXCEPT
                     !.calls = IF driver = "free" THEN @ + 1 ELSE @,
                     !.ticks = IF driver = "free" THEN @ ELSE @ + 1,
                     !.due = FALSE]
  /\ UNCHANGED <<lastFaceX, lastFaceY, lastVelocityTime, lastCheck, driver, trackerVars>>

\* the tracker driver may make one more call
TrackerCall == driver = "tracker" /\ hist.calls < MaxTrackerCalls

\* the camera driver may make one more call
CameraCall == driver = "camera" /\ hist.calls < MaxCameraCalls
\* the predicted positions the camera driver may hand to track
CameraPursuitsNow ==
  IF hist.calls < CameraUnsteadyCalls THEN CameraPursuits ELSE {CameraSteady}

\* tracker and camera driver: time passes between two calls
FrameInterval ==
  /\ IF driver = "camera" THEN CameraCall /\ tracker.signatureValid ELSE TrackerCall
  /\ \E d \in (IF driver = "camera" THEN CameraSteps ELSE FrameSteps) : now' = now + d
  /\ hist' = Counted(hist)
  /\ trackCall' = [trackCall EXCEPT !.op = "wait"]
  /\ UNCHANGED <<reflexVars, driver, call, tracker>>

\* HistogramTracker::reset
TrackerReset ==
  /\ TrackerCall
  /\ tracker' = TrackerResetState
  /\ hist' = Counted(hist)
  /\ trackCall' = [trackCall EXCEPT !.op = "reset", !.trail = <<>>]
  /\ UNCHANGED <<reflexVars, now, driver, call>>

BuildSignature ==
  /\ IF driver = "camera" THEN CameraCall /\ ~tracker.signatureValid ELSE TrackerCall
  /\ \E frame \in (IF driver = "camera" THEN CameraFrames ELSE Frames),
        box \in Boxes :
       /\ tracker' = BuildSignatureState(tracker, frame, box[1], box[2], box[3], box[4], now)
       /\ trackCall' = [trackCall EXCEPT !.op = "buildSignature",
                                         !.trail = IF frame = NoFrame THEN @ ELSE <<>>]
  /\ hist' = Counted(hist)
  /\ UNCHANGED <<reflexVars, now, driver, call>>

Track ==
  /\ IF driver = "camera" THEN CameraCall /\ tracker.signatureValid ELSE TrackerCall
  /\ \E frame \in (IF driver = "camera" THEN CameraFrames ELSE Frames),
        p \in (IF driver = "camera" THEN CameraPursuitsNow ELSE Pursuits) :
     \E r \in {TrackResult(tracker, frame, p[1], p[2], p[3], now, trackCall)} :
       /\ tracker' = r.tracker
       /\ trackCall' = [op |-> "track", exit |-> r.exit, ret |-> r.ret,
                        outX |-> r.outX, outY |-> r.outY,
                        outConfidence |-> r.outConfidence,
                        args |-> <<frame, p[1], p[2], p[3]>>,
                        trail |-> IF r.exit \in EarlyExits THEN trackCall.trail
                                  ELSE IF r.exit = "collapse"
                                  THEN Append(trackCall.trail, "collapse")
                                  ELSE Append(trackCall.trail, "pass")]
  /\ hist' = Counted(hist)
  /\ UNCHANGED <<reflexVars, now, driver, call>>

Invalidate ==
  /\ TrackerCall
  /\ tracker' = InvalidateState(tracker)
  /\ hist' = Counted(hist)
  /\ trackCall' = [trackCall EXCEPT !.op = "invalidate"]
  /\ UNCHANGED <<reflexVars, now, driver, call>>

\* assessQuality: trackCall.exit takes the class it returns
AssessQualityCall ==
  /\ driver = "quality"
  /\ trackCall.op # "assessQuality"
  /\ trackCall' = [trackCall EXCEPT !.op = "assessQuality", !.exit = AssessQuality(tracker)]
  /\ UNCHANGED <<reflexVars, now, driver, call, hist, tracker>>

vars == <<state, panPID, tiltPID, trajectory, lastUpdateTime, isReturningToCenter,
          lastFaceX, lastFaceY, lastVelocityTime, lastCheck, now, driver, call, hist,
          tracker, trackCall>>

\* the free driver
Next ==
  \/ Advance
  \/ Reset
  \/ Enable
  \/ Disable
  \/ FaceLost
  \/ CheckTimeout
  \/ UpdateFaceData
  \/ UpdateConfidence
  \/ Calculate

Spec == Init /\ [][Next]_vars

\* the loop driver
NextLoop ==
  \/ LoopPeriod
  \/ LoopStall
  \/ UpdateFaceData
  \/ Calculate

SpecLoop == InitLoop /\ [][NextLoop]_vars

\* the scene driver
NextScene ==
  \/ LoopPeriod
  \/ UpdateFaceData
  \/ UpdateConfidence
  \/ Calculate

SpecScene == InitScene /\ [][NextScene]_vars

\* the tracker driver
NextTracker ==
  \/ FrameInterval
  \/ TrackerReset
  \/ BuildSignature
  \/ Track
  \/ Invalidate

SpecTracker == InitTracker /\ [][NextTracker]_vars

\* the camera driver
NextCamera ==
  \/ FrameInterval
  \/ BuildSignature
  \/ Track

SpecCamera == InitCamera /\ [][NextCamera]_vars

\* the quality driver
NextQuality == AssessQualityCall

SpecQuality == InitQuality /\ [][NextQuality]_vars

\* the trajectory driver: a GentleTrajectory on its own.  call.baseOut and call.nodOut
\* are the caller's pan and tilt (in AngleScale), which getNextPosition writes when it
\* returns true; the caller plans from where it stands.
InitTrajectory ==
  /\ InitCore
  /\ state = ResetState
  /\ driver = "trajectory"

\* planReturnToCenter(fromPan, fromTilt): from the centre, from next to it on the far
\* side, from 30 and from 80 degrees away, and from a corner beyond the servo range
PlanReturnToCenterCall ==
  /\ driver = "trajectory"
  /\ \E a \in {<<90, 115>>, <<100, 120>>, <<60, 115>>, <<10, 116>>, <<0, 180>>} :
       /\ trajectory' = PlanReturnToCenter(a[1] * AngleScale, a[2] * AngleScale)
       /\ call' = [NoCall EXCEPT !.op = "planReturnToCenter",
                                 !.baseOut = a[1] * AngleScale,
                                 !.nodOut = a[2] * AngleScale]
  /\ UNCHANGED <<state, panPID, tiltPID, lastUpdateTime, isReturningToCenter,
                 lastFaceX, lastFaceY, lastVelocityTime, lastCheck, now, driver, hist,
                 trackerVars>>

\* getNextPosition(pan, tilt)
GetNextPositionCall ==
  /\ driver = "trajectory"
  /\ \E nx \in {GetNextPosition(trajectory)} :
       /\ trajectory' = nx.traj
       /\ call' = [call EXCEPT !.op = "getNextPosition", !.ret = nx.ok,
                                !.baseOut = IF nx.ok THEN nx.pan ELSE @,
                                !.nodOut = IF nx.ok THEN nx.tilt ELSE @]
  /\ UNCHANGED <<state, panPID, tiltPID, lastUpdateTime, isReturningToCenter,
                 lastFaceX, lastFaceY, lastVelocityTime, lastCheck, now, driver, hist,
                 trackerVars>>

\* cancel()
CancelCall ==
  /\ driver = "trajectory"
  /\ trajectory' = TrajectoryCancel(trajectory)
  /\ call' = [call EXCEPT !.op = "cancel"]
  /\ UNCHANGED <<state, panPID, tiltPID, lastUpdateTime, isReturningToCenter,
                 lastFaceX, lastFaceY, lastVelocityTime, lastCheck, now, driver, hist,
                 trackerVars>>

NextTrajectory ==
  \/ PlanReturnToCenterCall
  \/ GetNextPositionCall
  \/ CancelCall

SpecTrajectory == InitTrajectory /\ [][NextTrajectory]_vars

\* the watch driver
NextWatch ==
  \/ WatchCheckTimeout
  \/ UpdateFaceData
  \/ Calculate

SpecWatch == InitWatch /\ [][NextWatch]_vars

\* the intent driver
NextIntent ==
  \/ LoopPeriod
  \/ LoopStall
  \/ Enable
  \/ FaceLost
  \/ Calculate

SpecIntent == InitIntent /\ [][NextIntent]_vars

(***************************************************************************)
(* Properties                                                              *)
(***************************************************************************)
\* |x - centre| of the stored face position
FaceErrorX == Abs(state.faceX - 120)
FaceErrorY == Abs(state.faceY - 120)

\* a calculate call has just returned, and it was not throttled
Ticking == call.op = "calculate" /\ call.processed

\* the current angles handed to the call were inside the servo range
CurrentInRange == call.curBase \in 10..170 /\ call.curNod \in 80..150

\* C1: whatever calls were made, with whatever arguments, the stored targets and the
\* pair returned by calculate lie inside the servo range: 10 <= base <= 170 and
\* 80 <= nod <= 150.
TargetsInRange ==
  /\ state.targetBase \in 10..170
  /\ state.targetNod \in 80..150
  /\ call.op = "calculate" => call.baseOut \in 10..170 /\ call.nodOut \in 80..150

\* a processed calculate was handed angles beyond both ranges and returned the limits
TargetsInRangeWitness ==
  /\ Ticking
  /\ call.curBase > 170 /\ call.curNod < 80
  /\ call.baseOut = 170 /\ call.nodOut = 80

\* C2: as long as updateFaceData has accepted no report, controlState is LOST.
LostWithoutReport == ~hist.accepted => state.controlState = "LOST"

\* C3: a processed tick that starts in LOST with blindState other than BLIND_MOVING and
\* has a valid position (core active, feed not stale) ends in ACQUIRE with the
\* return-to-center trajectory cancelled.
AcquireOnValidTick ==
  (Ticking /\ call.preControl = "LOST" /\ call.preBlind # "BLIND_MOVING"
     /\ state.active /\ ~state.dataIsStale)
  => state.controlState = "ACQUIRE" /\ ~trajectory.active

\* such a tick, made while a return-to-center trajectory was running
AcquireOnValidTickWitness ==
  /\ Ticking /\ call.preControl = "LOST" /\ call.preBlind = "GENTLE_SETTLING"
  /\ call.preTrajectory
  /\ state.active /\ ~state.dataIsStale
  /\ state.controlState = "ACQUIRE" /\ ~trajectory.active

\* C4, as claimed: a tick enters TRACK from ACQUIRE only when 2 further consecutive
\* valid ticks have followed the tick that entered ACQUIRE, and only with both
\* errors under 20.
TrackAfterTwoFurtherTicks ==
  (Ticking /\ call.preControl = "ACQUIRE" /\ state.controlState = "TRACK")
  => hist.further >= 2 /\ FaceErrorX < 20 /\ FaceErrorY < 20

\* C4, amended: the tick that entered ACQUIRE counts.  A tick enters TRACK exactly
\* when it starts in ACQUIRE, has a valid position, is at least the 2nd consecutive
\* valid tick, and both errors are under 20; TRACK is entered from ACQUIRE only.
TrackOnSecondValidTick ==
  Ticking =>
    /\ (call.preControl # "TRACK" /\ state.controlState = "TRACK")
         <=> (call.preControl = "ACQUIRE" /\ call.valid /\ hist.run >= 2
                /\ FaceErrorX < 20 /\ FaceErrorY < 20)
    /\ (call.preControl = "LOST" /\ state.controlState = "ACQUIRE") => hist.run = 1

\* TRACK entered on the first valid tick after the one that entered ACQUIRE
TrackOnSecondValidTickWitness ==
  /\ Ticking /\ call.preControl = "ACQUIRE" /\ state.controlState = "TRACK"
  /\ hist.run = 2 /\ hist.further = 1

\* C5: after 10 consecutive processed ticks without an updateFaceData call, the first
\* of them starting in ACQUIRE or TRACK, controlState is LOST.
LostAfterQuietTicks == hist.quiet = 10 => state.controlState = "LOST"

\* C6: a calculate call less than 20 ms after the last processed tick changes nothing
\* in the core and returns the stored targets.
ThrottledCallIsNoOp ==
  [][(call'.op = "calculate" /\ now - lastUpdateTime < 20)
       => (UNCHANGED reflexVars
             /\ call'.baseOut = state.targetBase /\ call'.nodOut = state.targetNod)]_vars

\* a throttled call made after a processed tick that left LOST
ThrottledCallIsNoOpWitness ==
  /\ call.op = "calculate" /\ ~call.processed
  /\ lastUpdateTime > 0 /\ now - lastUpdateTime < 20
  /\ state.controlState # "LOST"

\* C7: while the feed is marked stale the core is not active.
StaleFeedIsInactive == state.dataIsStale => ~state.active

\* C8: a processed tick in TRACK with both errors strictly inside the deadband
\* (12 + floor((1 - confidence/100) * 8)) returns the in-range current angles.
DeadbandHoldsStill ==
  (Ticking /\ call.preControl = "TRACK" /\ state.controlState = "TRACK"
     /\ CurrentInRange
     /\ FaceErrorX < 12 + ((100 - state.faceConfidence) * 8) \div 100
     /\ FaceErrorY < 12 + ((100 - state.faceConfidence) * 8) \div 100)
  => call.baseOut = call.curBase /\ call.nodOut = call.curNod

\* C9: on a processed tick in ACQUIRE or TRACK each returned target differs from the
\* in-range current angle by at most 3 degrees.
CommandBounded ==
  (Ticking /\ state.controlState \in {"ACQUIRE", "TRACK"} /\ CurrentInRange)
  => Abs(call.baseOut - call.curBase) <= 3 /\ Abs(call.nodOut - call.curNod) <= 3

\* a tick on which the command of both axes was cut to the limit
CommandBoundedWitness ==
  /\ Ticking /\ state.controlState \in {"ACQUIRE", "TRACK"} /\ CurrentInRange
  /\ call.baseOut - call.curBase = 3
  /\ call.nodOut - call.curNod = -3

\* the last two searches of the trail both found the skin coverage collapsed
TwoCollapsesInARow ==
  /\ Len(trackCall.trail) >= 2
  /\ trackCall.trail[Len(trackCall.trail)] = "collapse"
  /\ trackCall.trail[Len(trackCall.trail) - 1] = "collapse"

\* a track call has just found the skin coverage collapsed, and the search before it,
\* if there was one since buildSignature, had not
OneCollapse ==
  /\ trackCall.op = "track" /\ trackCall.exit = "collapse"
  /\ ~TwoCollapsesInARow

\* C10: when two track calls in a row have found the skin coverage of the search below
\* the collapse threshold, isSignatureValid() is false; after a single such call, and
\* after the second of two such calls with a call between them that passed the collapse
\* check, isSignatureValid() is true.
CollapseTwiceInvalidates ==
  /\ TwoCollapsesInARow => ~IsSignatureValid(tracker, now)
  /\ OneCollapse => IsSignatureValid(tracker, now)

\* one collapse, a call that passed the check, then two collapses in a row: the
\* signature was valid up to the last call, which invalidated it
CollapseTwiceInvalidatesWitness ==
  /\ trackCall.op = "track"
  /\ trackCall.trail = <<"collapse", "pass", "collapse", "collapse">>
  /\ ~IsSignatureValid(tracker, now)

\* C11: when more than 1200 ms have passed since the signature was built,
\* isSignatureValid() is false, whether or not track was called in between; a track
\* call made then returns false, whatever the frame, and isSignatureValid() is false
\* after it (a call with a frame also clears signatureValid, a call with a null frame
\* returns before the age check).
SignatureExpires ==
  now - tracker.signatureTime > 1200 =>
    /\ ~IsSignatureValid(tracker, now)
    /\ trackCall.op = "track" => ~trackCall.ret
    /\ (trackCall.op = "track" /\ trackCall.exit = "age") => ~tracker.signatureValid

\* a signature that was valid when built, left alone for more than 1200 ms, and then
\* invalidated by the age check of a track call
SignatureExpiresWitness ==
  /\ trackCall.op = "track" /\ trackCall.exit = "age"
  /\ trackCall.trail = <<>>
  /\ now - tracker.signatureTime > 1200
  /\ ~trackCall.ret /\ ~tracker.signatureValid

\* C12: an invalid signature stays invalid.  From a state where isSignatureValid() is
\* false, whatever the reason, a track call returns false, and isSignatureValid() is
\* true after a call only if that call is buildSignature.
InvalidIsAbsorbing ==
  [][~IsSignatureValid(tracker, now)
       => /\ trackCall'.op = "track" => ~trackCall'.ret
          /\ IsSignatureValid(tracker', now') => trackCall'.op = "buildSignature"]_vars

\* a signature that two collapses invalidated, and a track call refused after that
InvalidIsAbsorbingWitness ==
  /\ trackCall.op = "track" /\ trackCall.exit = "unusable"
  /\ trackCall.trail = <<"collapse", "collapse">>
  /\ tracker.signaturePixelCount > 0
  /\ ~trackCall.ret /\ ~IsSignatureValid(tracker, now)

\* C13, as claimed: on a processed tick in TRACK with the last accepted report more
\* than 1500 ms old, or 10 ticks later at the latest, controlState becomes LOST and a
\* return to the centre is planned.
LostAfterReturnTimeout ==
  (Ticking /\ call.preControl = "TRACK" /\ state.lastFaceTime > 0
     /\ now - state.lastFaceTime > 1500 + 10 * 20)
  => state.controlState = "LOST" /\ state.blindState = "BLIND_MOVING"

\* C14: a processed tick that moves controlState from LOST to ACQUIRE leaves both PID
\* controllers as one update from the reset controller leaves them (integral of one
\* step, previous error the error of the tick).
PIDResetOnAcquire ==
  (Ticking /\ call.preControl = "LOST" /\ state.controlState = "ACQUIRE")
  => /\ panPID = PIDUpdate(PIDReset, state.faceX - 120, 0, F32Zero).pid
     /\ tiltPID = PIDUpdate(PIDReset, state.faceY - 120, 0, F32Zero).pid

\* C15: from every reachable state, disable() followed by enable() gives the tracking
\* state that reset() followed by enable() gives: controlState LOST, blindState
\* NORMAL, framesTracked = framesLost = 0, trackingQuality 0, isSettled false, and no
\* return to the centre pending.
DisableEnableIsClean ==
  /\ EnableState(DisableState(state)).controlState = "LOST"
  /\ EnableState(DisableState(state)).blindState = "NORMAL"
  /\ EnableState(DisableState(state)).framesTracked = 0
  /\ EnableState(DisableState(state)).framesLost = 0
  /\ EnableState(DisableState(state)).trackingQuality = F32Zero
  /\ ~EnableState(DisableState(state)).isSettled
  /\ ~isReturningToCenter

\* C16: a track call that fails because the coarse confidence, the coherence, the
\* distance or the final confidence check rejected the frame leaves signatureValid,
\* histogramOnlyFrames, consecutiveCollapses, the quality history and the last match
\* as they were.
RejectedFrameChangesNothing ==
  [][(trackCall'.op = "track"
        /\ trackCall'.exit \in {"coarse", "coherence", "distance", "confidence"})
       => /\ ~trackCall'.ret
          /\ tracker'.signatureValid = tracker.signatureValid
          /\ tracker'.histogramOnlyFrames = tracker.histogramOnlyFrames
          /\ tracker'.consecutiveCollapses = tracker.consecutiveCollapses
          /\ tracker'.historyCount = tracker.historyCount
          /\ tracker'.historyIndex = tracker.historyIndex
          /\ tracker'.lastMatchX = tracker.lastMatchX
          /\ tracker'.lastMatchY = tracker.lastMatchY
          /\ tracker'.lastConfidence = tracker.lastConfidence]_vars

\* C17, as claimed: the 5 processed ticks after the one that entered BLIND_MOVING
\* ignore the position data, the next tick enters GENTLE_SETTLING, the 10 ticks after
\* it stay there, and the tick after those leaves blindState NORMAL.
BlindThenSettleThenNormal ==
  [][(call'.op = "calculate" /\ call'.processed) =>
       /\ (state.blindState = "BLIND_MOVING" /\ state.blindFrameCounter < 5)
            => /\ state'.blindState = "BLIND_MOVING"
               /\ state'.controlState = state.controlState
               /\ state'.framesTracked = state.framesTracked
               /\ state'.framesLost = state.framesLost
       /\ (state.blindState = "BLIND_MOVING" /\ state.blindFrameCounter = 5)
            => state'.blindState = "GENTLE_SETTLING"
       /\ (state.blindState = "GENTLE_SETTLING" /\ state.blindFrameCounter < 10)
            => state'.blindState = "GENTLE_SETTLING"
       /\ (state.blindState = "GENTLE_SETTLING" /\ state.blindFrameCounter = 10)
            => state'.blindState = "NORMAL"]_vars

\* C18: a processed tick takes blindState from NORMAL to BLIND_MOVING only if it ends
\* in LOST at least 1500 ms after the last accepted report, and never for a core that
\* has accepted no report since construction or reset.
ReturnOnlyAfterFace ==
  [][(/\ call'.op = "calculate" /\ call'.processed
      /\ state.blindState = "NORMAL" /\ state'.blindState = "BLIND_MOVING")
       => /\ state'.controlState = "LOST"
          /\ now' - state'.lastFaceTime >= 1500
          /\ hist'.accepted]_vars


\* C19: a track call on a usable signature and frame fails on the age and invalidates
\* the signature once it is more than 1200 ms old, whatever the quality; between 400
\* ms and 1200 ms it fails on the budget and invalidates the signature when the frames
\* counted since buildSignature have reached 12 (GOOD), 8 (MODERATE) or 5 (POOR), and
\* searches, counting one more frame, while they are below; up to 400 ms it searches
\* whatever the count.
BudgetGatesTrack ==
  [][(trackCall'.op = "track" /\ trackCall'.exit # "unusable") =>
       LET age == now - tracker.signatureTime
           quality == AssessQuality(tracker)
           budget == IF quality = "GOOD" THEN 12 ELSE IF quality = "MODERATE" THEN 8 ELSE 5
           searched == /\ trackCall'.exit \notin {"age", "budget"}
                       /\ tracker'.histogramOnlyFrames = tracker.histogramOnlyFrames + 1
           failed == ~trackCall'.ret /\ ~tracker'.signatureValid
       IN /\ age > 1200 => trackCall'.exit = "age" /\ failed
          /\ (age > 400 /\ age <= 1200 /\ tracker.histogramOnlyFrames >= budget)
               => trackCall'.exit = "budget" /\ failed
          /\ (age > 400 /\ age <= 1200 /\ tracker.histogramOnlyFrames < budget) => searched
          /\ age <= 400 => searched]_vars

\* twelve frames were tracked on a signature not older than 400 ms, the history says
\* GOOD, and the track call that came 800 ms after buildSignature failed on the budget
BudgetGatesTrackWitness ==
  /\ trackCall.op = "track" /\ trackCall.exit = "budget"
  /\ tracker.histogramOnlyFrames = 12
  /\ AssessQuality(tracker) = "GOOD"
  /\ now - tracker.signatureTime = 2 * 400
  /\ ~trackCall.ret /\ ~tracker.signatureValid


\* the k-th latest stored sample of the history, k in 1..historyCount
StoredSlot(k) == (tracker.historyIndex + 5 - k) % 5
\* twice the sum of the older stored confidences, and the number of them times the sum
\* of the two latest: the two means, both times twice the number of older samples
RECURSIVE StoredSum(_, _)
StoredSum(from, to) ==
  IF from > to THEN 0
  ELSE tracker.confidenceHistory[StoredSlot(from)] + StoredSum(from + 1, to)
OlderTwice == 2 * StoredSum(3, tracker.historyCount)
RecentTimesOlder == (tracker.historyCount - 2) * StoredSum(1, 2)
\* some two consecutive stored samples lie 25 px or more apart
StoredJump ==
  \E k \in 1..(tracker.historyCount - 1) :
    (tracker.positionHistoryX[StoredSlot(k)] - tracker.positionHistoryX[StoredSlot(k + 1)]) ^ 2
      + (tracker.positionHistoryY[StoredSlot(k)] - tracker.positionHistoryY[StoredSlot(k + 1)]) ^ 2
      >= 25 * 25

\* C20: assessQuality returns MODERATE on fewer than 3 stored samples; otherwise POOR
\* when the mean of the two latest confidences is more than 0.08 below the mean of the
\* older ones or two consecutive stored positions lie 25 px or more apart; otherwise
\* GOOD when the mean of the two latest is at least 0.70; otherwise MODERATE.  Only the
\* historyCount stored samples count, whatever the other slots hold.
QualityFromStoredSamples ==
  trackCall.op = "assessQuality" =>
    trackCall.exit =
      IF tracker.historyCount < 3 THEN "MODERATE"
      ELSE IF \/ OlderTwice - RecentTimesOlder
                   > (16 * (tracker.historyCount - 2) * ConfScale) \div 100
              \/ StoredJump
      THEN "POOR"
      ELSE IF 100 * (StoredSum(1, 2) \div 2) >= 70 * ConfScale
                 - 50 * (StoredSum(1, 2) % 2) THEN "GOOD"
      ELSE "MODERATE"

\* a full ring whose only jump of 25 px lies between the two oldest stored samples,
\* with high and steady confidences: POOR
QualityFromStoredSamplesWitness ==
  /\ trackCall.op = "assessQuality" /\ trackCall.exit = "POOR"
  /\ tracker.historyCount = 5
  /\ \A k \in 1..5 : 100 * tracker.confidenceHistory[StoredSlot(k)] > 71 * ConfScale
  /\ \A k \in 1..4 : tracker.positionHistoryX[StoredSlot(k)] = 30
  /\ tracker.positionHistoryX[StoredSlot(5)] = 55


\* the last two calls were track calls with the same arguments, nothing in between
SameTrackAgain ==
  trackCall.op = "track" /\ trackCall'.op = "track" /\ trackCall'.args = trackCall.args
\* the later of them returned what the earlier returned
SameTrackResult ==
  /\ trackCall'.ret = trackCall.ret
  /\ trackCall'.outX = trackCall.outX
  /\ trackCall'.outY = trackCall.outY
  /\ trackCall'.outConfidence = trackCall.outConfidence

\* C21, as claimed: a track call that repeats the arguments of the track call before
\* it, on a signature that was valid before both, returns the same flag, position and
\* confidence.
RepeatedTrackSameResult ==
  [][(SameTrackAgain /\ trackCall.exit # "unusable") => SameTrackResult]_vars

\* C21, amended: it does so unless it is refused by the frame budget (or the age),
\* which depends on the number of track calls made since buildSignature.
RepeatedTrackSameResultInBudget ==
  [][(SameTrackAgain /\ trackCall'.exit \notin EarlyExits) => SameTrackResult]_vars

\* a track call has succeeded a second time in a row with the same arguments, the
\* first of the two having moved the last match away from the face box
RepeatedTrackSameResultInBudgetWitness ==
  /\ trackCall.op = "track" /\ trackCall.ret
  /\ tracker.historyCount >= 2
  /\ tracker.positionHistoryX[0] = tracker.positionHistoryX[1]
  /\ tracker.positionHistoryX[0] = trackCall.outX
  /\ trackCall.outX # 60
  /\ trackCall.args = <<52431, 60, 60, 20>>


\* C22: the stored face position lies in [0, 240], the velocity in [-200, 200] and the
\* confidence in [0, 100], and updateFaceData on any report does what it does on the
\* report with the clamped coordinates.
ClampedNeverRejected ==
  /\ state.faceX \in 0..240 /\ state.faceY \in 0..240
  /\ state.faceVX \in -200..200 /\ state.faceVY \in -200..200
  /\ state.faceConfidence \in 0..100
  /\ \A p \in Reports :
       UpdateFaceDataResult(state, lastFaceX, lastFaceY, lastVelocityTime,
                            p[1], p[2], p[3], 100, now)
         = UpdateFaceDataResult(state, lastFaceX, lastFaceY, lastVelocityTime,
                                IF p[1] < 0 THEN 0 ELSE IF p[1] > 240 THEN 240 ELSE p[1],
                                IF p[2] < 0 THEN 0 ELSE IF p[2] > 240 THEN 240 ELSE p[2],
                                p[3], 100, now)

\* the report (-5, 300) was accepted within half a second of another: it is stored as
\* (0, 240), with both velocities at their limits
ClampedNeverRejectedWitness ==
  /\ call.op = "none" /\ hist.accepted
  /\ state.faceX = 0 /\ state.faceY = 240
  /\ state.faceVX = -200 /\ state.faceVY = 200
  /\ state.lastFaceTime = now


\* C23: the flag a calculate call returns, throttled or not, is the activity flag of
\* the core at its return.
ReturnsActivity == call.op = "calculate" => call.ret = isActive


\* C24: on an enabled core that gets the reports (122,121), (121,122), (120,123), one
\* before each processed tick, with a confidence of 70 or more, every report is
\* stored when it arrives and the data is not stale, and after the third tick
\* controlState is TRACK and the core is settled.
SceneSettles ==
  driver = "scene" =>
    /\ (call.op = "none" /\ hist.reports > hist.ticks) =>
         /\ ~state.dataIsStale /\ state.active
         /\ <<state.faceX, state.faceY>> =
              <<<<122, 121>>, <<121, 122>>, <<120, 123>>>>[hist.reports]
    /\ (Ticking /\ hist.ticks = 3) =>
         /\ state.controlState = "TRACK"
         /\ isSettled
         /\ F32Less(state.errorMagnitude, F32Int(10))
         /\ state.faceConfidence >= 70

\* the third tick has come, 20 ms after the second, on the third report
SceneSettlesWitness ==
  /\ driver = "scene" /\ Ticking /\ hist.ticks = 3 /\ hist.reports = 3
  /\ state.faceX = 120 /\ state.faceY = 123
  /\ state.framesTracked = 3
  /\ state.controlState = "TRACK" /\ isSettled


\* ---- C25: every buildSignature starts a fresh tracking episode ----

\* the tracker after buildSignature(frame, box) now
Rebuilt(frame, box) ==
  BuildSignatureState(tracker, frame, box[1], box[2], box[3], box[4], now)

\* the samples buildSignature reads in the box
BoxSamples(box) ==
  RegionSamples(Max(0, box[1] - TruncDiv(box[3], 2) - 5),
                Max(0, box[2] - TruncDiv(box[4], 2) - 5),
                Min(240, box[1] + TruncDiv(box[3], 2) + 5),
                Min(240, box[2] + TruncDiv(box[4], 2) + 5)).all

\* the samples of the box that are skin, each reading the frame's colour
BoxSkinSamples(frame, box) ==
  IF IsSkinTone(GetPixelHSV(frame, box[1], box[2])) THEN BoxSamples(box) ELSE 0

\* C25: in every state, buildSignature with a frame leaves histogramOnlyFrames,
\* consecutiveCollapses and consecutiveStableFrames at 0, the quality history empty
\* and the signature of age 0, and the signature is valid exactly when at least one
\* pixel was sampled and at least 0.28 of the samples are skin
BuildStartsFreshEpisode ==
  \A frame \in Frames \ {NoFrame}, box \in Boxes :
    LET rebuilt == Rebuilt(frame, box)
    IN /\ rebuilt.histogramOnlyFrames = 0
       /\ rebuilt.consecutiveCollapses = 0
       /\ rebuilt.consecutiveStableFrames = 0
       /\ rebuilt.historyCount = 0
       /\ rebuilt.historyIndex = 0
       /\ now - rebuilt.signatureTime = 0
       /\ rebuilt.signatureValid
            <=> /\ BoxSamples(box) >= 1
                /\ BoxSkinSamples(frame, box) * Micro
                     >= SIGNATURE_SKIN_RATIO_MIN * BoxSamples(box)

\* a signature that matched a frame has been replaced by one built from a box
\* without skin, which is invalid
BuildStartsFreshEpisodeWitness ==
  /\ trackCall.op = "buildSignature"
  /\ trackCall.ret
  /\ tracker.signaturePixelCount > 0
  /\ tracker.signatureSkinRatio < SIGNATURE_SKIN_RATIO_MIN
  /\ ~tracker.signatureValid
  /\ tracker.signatureTime = now
  /\ now > 0
  /\ tracker.histogramOnlyFrames = 0
  /\ tracker.historyCount = 0


\* ---- C26: only missing skin counts toward the skin-collapse invalidation ----

\* the skin coverage of every candidate window of a frame of one colour
FrameSkinCoverage(frame) ==
  IF IsSkinTone(GetPixelHSV(frame, 0, 0)) THEN Micro ELSE 0

\* C26, as claimed: a track call that searches a frame whose candidates all have a
\* skin coverage of at least 0.20 does not increase consecutiveCollapses and does
\* not invalidate the signature, whatever the candidates are rejected for
DriftRejectionIsNoCollapse ==
  [][(/\ trackCall'.op = "track"
      /\ hist'.calls = hist.calls + 1
      /\ trackCall'.exit \notin EarlyExits
      /\ FrameSkinCoverage(trackCall'.args[1]) >= MIN_SKIN_PERCENTAGE)
       => /\ tracker'.consecutiveCollapses <= tracker.consecutiveCollapses
          /\ tracker'.signatureValid = tracker.signatureValid]_vars


\* ---- C27: a planned return to the centre runs to its end ----

\* the tick planned a return to the centre: updateLost alone sets BLIND_MOVING, with
\* the counter at 0, and takes the first step of the new plan
PlannedReturn ==
  /\ call'.op = "calculate" /\ call'.processed
  /\ state'.blindState = "BLIND_MOVING" /\ state'.blindFrameCounter = 0
  /\ trajectory'.active /\ trajectory'.currentStep = 1

\* C27, as claimed: while controlState stays LOST and no position update has arrived
\* since the current plan was made, a tick plans a new return to the centre only
\* when the current plan has supplied its last step
PlanRunsToItsEnd ==
  [][(/\ PlannedReturn
      /\ state.controlState = "LOST" /\ state'.controlState = "LOST"
      /\ hist.quiet >= BLIND_IGNORE_FRAMES + SETTLING_FRAMES + 2
      /\ trajectory.active)
       => trajectory.currentStep * StepScale >= trajectory.totalSteps]_vars


\* ---- C28: tracking the frame the signature was built from ----

\* track on the frame, predicted at the centre of the box, right after buildSignature
\* on that box of the same frame
RoundTrip(frame, box, servoSpeed) ==
  TrackResult(Rebuilt(frame, box), frame, box[1], box[2], servoSpeed, now, trackCall)

\* C28, as claimed: when the box holds at least 0.28 skin, that track call succeeds,
\* returns a position within FINE_RADIUS of the centre of the box and a confidence
\* of at least CONFIDENCE_HIGH
RoundTripFindsTheBox ==
  \A frame \in Frames \ {NoFrame}, box \in Boxes, p \in Pursuits :
    Rebuilt(frame, box).signatureSkinRatio >= SIGNATURE_SKIN_RATIO_MIN
      => LET r == RoundTrip(frame, box, p[3])
         IN /\ r.ret
            /\ Abs(r.outX - box[1]) <= FINE_RADIUS
            /\ Abs(r.outY - box[2]) <= FINE_RADIUS
            /\ 100 * r.outConfidence >= 70 * ConfScale


\* ---- C29: the return-to-centre trajectory ----

\* totalSteps rounded up: the number of positions a plan supplies
StepsRoundedUp(traj) == (traj.totalSteps + StepScale - 1) \div StepScale

\* v lies between from and to, whichever of the two is the larger
Between(from, v, to) == (from <= v /\ v <= to) \/ (to <= v /\ v <= from)

\* 50 * clamp(distance / 60, 0.3, 1.5) in exact arithmetic, rounded up: 120 hundredths
\* of a degree of distance make one step
ExactSteps(traj) ==
  LET dxc == MulDiv(Abs(BASE_CENTER * AngleScale - traj.startPan), 100, AngleScale)
      dyc == MulDiv(Abs(NOD_CENTER * AngleScale - traj.startTilt), 100, AngleScale)
      root == ISqrt(dxc * dxc + dyc * dyc)
  IN IF dxc >= 9000 \/ dyc >= 9000 THEN 75
     ELSE Constrain(IF root * root = dxc * dxc + dyc * dyc /\ root % 120 = 0
                    THEN root \div 120 ELSE root \div 120 + 1, 15, 75)

\* C29, amended: planReturnToCenter gives between 15 and 75 steps, totalSteps being
\* the float the code computes, which rounded up is 16 to 75 and the exact number of
\* steps or one more; getNextPosition returns a position on totalSteps (rounded up)
\* calls, each between the one before and the centre, then reports completion (false,
\* inactive) on every later call, and returns false at once after cancel()
TrajectoryRunsToCentre ==
  [][/\ call'.op = "planReturnToCenter"
        => /\ trajectory'.active /\ trajectory'.currentStep = 0
           /\ trajectory'.totalSteps >= 15 * StepScale
           /\ trajectory'.totalSteps <= 75 * StepScale
           /\ StepsRoundedUp(trajectory') >= 16
           /\ StepsRoundedUp(trajectory') \in {ExactSteps(trajectory'),
                                               ExactSteps(trajectory') + 1}
     /\ call'.op = "cancel" => ~trajectory'.active
     /\ call'.op = "getNextPosition"
        => /\ call'.ret <=> /\ trajectory.active
                            /\ trajectory.currentStep < StepsRoundedUp(trajectory)
           /\ call'.ret
                => /\ trajectory'.active
                   /\ trajectory'.currentStep = trajectory.currentStep + 1
                   /\ Between(call.baseOut, call'.baseOut, BASE_CENTER * AngleScale)
                   /\ Between(call.nodOut, call'.nodOut, NOD_CENTER * AngleScale)
           /\ ~call'.ret
                => /\ ~trajectory'.active
                   /\ call'.baseOut = call.baseOut /\ call'.nodOut = call.nodOut]_vars

\* a plan of 66.7 steps has supplied its 67 positions and reported completion
TrajectoryRunsToCentreWitness ==
  /\ call.op = "getNextPosition" /\ ~call.ret
  /\ ~trajectory.active
  /\ trajectory.startPan = 10 * AngleScale
  /\ trajectory.currentStep = 67
  /\ StepsRoundedUp(trajectory) = 67
  /\ call.baseOut > 89 * AngleScale /\ call.baseOut <= BASE_CENTER * AngleScale


\* C29, as claimed: getNextPosition returns a position on exactly
\* 50 * clamp(distance / 60, 0.3, 1.5) calls, rounded up, and on no later call
TrajectoryRunsExactSteps ==
  [][call'.op = "getNextPosition"
       => (call'.ret <=> /\ trajectory.active
                         /\ trajectory.currentStep < ExactSteps(trajectory))]_vars


\* ---- C30: the transitions of controlState ----

\* a step that changes controlState from one value to another
ControlStateMoves(from, to) ==
  state.controlState = from /\ state'.controlState = to

\* C30: controlState changes only by reset() or by one processed calculate tick:
\* LOST to ACQUIRE and ACQUIRE to TRACK on a tick with a valid position, ACQUIRE or
\* TRACK to LOST on the 10th or a later consecutive tick without a valid position;
\* a tick without a valid position that is not yet the 10th changes nothing
ControlStateTransitions ==
  [][/\ state'.controlState # state.controlState
        => \/ state' = ResetState
           \/ /\ call'.op = "calculate" /\ call'.processed
              /\ \/ ControlStateMoves("LOST", "ACQUIRE") /\ call'.valid
                 \/ ControlStateMoves("ACQUIRE", "TRACK") /\ call'.valid
                 \/ /\ state.controlState \in {"ACQUIRE", "TRACK"}
                    /\ state'.controlState = "LOST"
                    /\ ~call'.valid
                    /\ hist'.invalid >= FRAMES_TO_LOST
     /\ (call'.op = "calculate" /\ hist'.invalid \in 1..(FRAMES_TO_LOST - 1))
          => state'.controlState = state.controlState]_vars

\* TRACK has been left for LOST on the 10th consecutive tick without a valid position
ControlStateTransitionsWitness ==
  /\ Ticking /\ call.preControl = "TRACK" /\ state.controlState = "LOST"
  /\ ~call.valid /\ hist.invalid = FRAMES_TO_LOST
  /\ hist.accepted


\* ---- C31: what checkTimeout does ----

\* C31: the watch driver's checkTimeout call (the step on which a period passes, not a
\* calculate call, during which the clock may tick) clears
\* active exactly when the core is active, at least 500 ms have passed since the last
\* check that got past the 500 ms gate, lastFaceTime is above 0 and more than 2000 ms
\* have passed since lastFaceTime; it changes no other field of the core
CheckTimeoutOnlyDeactivates ==
  [][(now' # now /\ call'.op = "none")
       => /\ state'.active # state.active
               <=> /\ state.active
                   /\ now' - lastCheck >= 500
                   /\ state.lastFaceTime > 0
                   /\ now' - state.lastFaceTime > 2000
          /\ state' = [state EXCEPT !.active = state'.active]
          /\ state'.active => state.active
          /\ UNCHANGED <<panPID, tiltPID, trajectory, lastUpdateTime,
                         isReturningToCenter, lastFaceX, lastFaceY,
                         lastVelocityTime>>]_vars

\* checkTimeout has just deactivated the core, 2000 ms and more after the last report
CheckTimeoutOnlyDeactivatesWitness ==
  /\ call.op = "none" /\ hist.due
  /\ ~state.active /\ state.shouldBeActive
  /\ lastCheck = now
  /\ state.lastFaceTime > 0
  /\ now - state.lastFaceTime > 2000


\* ---- C32: active implies shouldBeActive ----

\* updateFaceData(p) in the current state
ReportNow(p) ==
  UpdateFaceDataResult(state, lastFaceX, lastFaceY, lastVelocityTime,
                       p[1], p[2], p[3], 100, now)

\* C32: the core is active only while the last activation call was enable(); an
\* accepted report leaves the core active exactly when shouldBeActive holds, so it
\* never reactivates a disabled core and always reactivates a core that faceLost,
\* checkTimeout or the stale detection has deactivated
ActiveOnlyIfIntended ==
  /\ state.active => state.shouldBeActive
  /\ \A p \in Reports :
       LET r == ReportNow(p)
       IN /\ r.state.shouldBeActive = state.shouldBeActive
          /\ r.accepted => /\ ~r.state.dataIsStale
                           /\ r.state.active = state.shouldBeActive

\* an enabled core that has been marked stale and deactivated, on which a report is
\* accepted and reactivates it
ActiveOnlyIfIntendedWitness ==
  /\ state.shouldBeActive /\ ~state.active /\ state.dataIsStale
  /\ hist.accepted
  /\ \E p \in Reports : ReportNow(p).accepted /\ ReportNow(p).state.active


\* ---- C33: a disabled core commands no motion ----

\* C33, as claimed: a processed tick made while shouldBeActive is false, with current
\* angles inside the servo range, returns these angles as the targets
DisabledCommandsNoMotion ==
  (Ticking /\ ~state.shouldBeActive /\ CurrentInRange)
    => call.baseOut = call.curBase /\ call.nodOut = call.curNod


\* C34, as claimed: in every state observed between calculate calls
\* isReturningToCenter is true exactly when blindState is BLIND_MOVING or
\* GENTLE_SETTLING (so that a core in LOST with blindState NORMAL plans a return as
\* soon as the face has been lost for RETURN_TO_CENTER_TIMEOUT_MS).  Violated: the
\* transition to LOST sets blindState NORMAL and leaves the flag set.
ReturnFlagAgreesWithBlindState ==
  isReturningToCenter <=> state.blindState \in {"BLIND_MOVING", "GENTLE_SETTLING"}


\* C35, as claimed: while the face stays lost (controlState LOST, no position report
\* arriving) and the loop keeps calling calculate, a return to the centre is over
\* after its fixed numbers of frames and blindState, observed between two calculate
\* calls, is NORMAL from then on: the tick that plans the return, the 5 blind ticks,
\* the tick that enters GENTLE_SETTLING and the 10 settling ticks make 17 ticks, so
\* that from the 18th on blindState is NORMAL.  Violated: the 18th tick plans the
\* next return before it ends.
LostReturnIsOverInTime ==
  hist.returning > BLIND_IGNORE_FRAMES + SETTLING_FRAMES + 2
    => state.blindState = "NORMAL"


\* C36: in every state between two calculate calls blindState BLIND_MOVING implies
\* controlState LOST, and every step that moves controlState to LOST leaves blindState
\* NORMAL or BLIND_MOVING (GENTLE_SETTLING, which may accompany ACQUIRE and TRACK, does
\* not survive the transition).
BlindMovingOnlyWhenLost ==
  /\ [](state.blindState = "BLIND_MOVING" => state.controlState = "LOST")
  /\ [][state.controlState # "LOST" /\ state'.controlState = "LOST"
          => state'.blindState \in {"NORMAL", "BLIND_MOVING"}]_vars

\* a tick has moved a settling core from ACQUIRE or TRACK to LOST
BlindMovingOnlyWhenLostWitness ==
  /\ Ticking
  /\ call.preControl \in {"ACQUIRE", "TRACK"}
  /\ call.preBlind = "GENTLE_SETTLING"
  /\ state.controlState = "LOST"


\* C37, as claimed: isSettled() is true only while the core is active and controlState
\* is ACQUIRE or TRACK.  Violated: checkTimeout and the stale-feed detection clear
\* active, and the state machine moves to LOST, without clearing isSettled.
SettledOnlyWhileTracking ==
  state.isSettled => state.active /\ state.controlState \in {"ACQUIRE", "TRACK"}


\* no position report has been made since construction or the last reset(): the
\* stale-feed detection still holds its reset values
Unreported ==
  /\ state.prevFaceX = CAMERA_CENTER_X
  /\ state.prevFaceY = CAMERA_CENTER_Y
  /\ state.lastChangeTime = 0
  /\ state.staleDataCount = 0
  /\ state.lastFaceTime = 0
  /\ ~state.dataIsStale

\* C38, as claimed: the first position report after construction or reset() is
\* accepted whatever its coordinates and whenever it arrives: it is stored as the face
\* position, sets lastFaceTime, does not mark the feed stale and does not deactivate
\* the core.  Violated: a first report within STALE_DATA_THRESHOLD of the frame centre
\* that arrives more than STALE_DATA_TIMEOUT_MS after time 0 is dropped as stale.
FirstReportIsFresh ==
  Unreported
    => \A p \in Reports :
         LET r == ReportNow(p)
         IN /\ r.accepted
            /\ r.state.faceX = Constrain(p[1], 0, CAMERA_FRAME_WIDTH)
            /\ r.state.faceY = Constrain(p[2], 0, CAMERA_FRAME_HEIGHT)
            /\ r.state.lastFaceTime = now
            /\ ~r.state.dataIsStale
            /\ state.active => r.state.active


\* C39, as claimed: a confidence c in 0..100 set by updateConfidence is still the
\* stored confidence, the one the next control tick uses, after an updateFaceData call
\* that follows it.  Violated for c = 0: an accepted report replaces a stored
\* confidence of 0 by the default of 100.
ReportedConfidenceIsKept ==
  \A c \in 0..100, p \in Reports :
    UpdateFaceDataResult(UpdateConfidenceState(state, c), lastFaceX, lastFaceY,
                         lastVelocityTime, p[1], p[2], p[3], 100, now).state.faceConfidence = c


\* the quality history ring buffer of a tracker
HistoryOf(tr) ==
  <<tr.confidenceHistory, tr.positionHistoryX, tr.positionHistoryY,
    tr.historyIndex, tr.historyCount>>

\* C40: a track call that returns false leaves the caller's outX, outY and
\* outConfidence, the quality history, the last match position and confidence and
\* consecutiveStableFrames as they were; a track call that returns true reports a
\* position in [30, 210] on both axes and within MATCH_DISTANCE_LIMIT of the predicted
\* position, and appends exactly that match to the history.
TrackFailureLeavesNoTrace ==
  [][trackCall'.op = "track" /\ hist'.calls # hist.calls
       => IF trackCall'.ret
          THEN /\ trackCall'.outX \in 30..210
               /\ trackCall'.outY \in 30..210
               /\ DistanceSquared(trackCall'.outX, trackCall'.outY,
                                  trackCall'.args[2], trackCall'.args[3])
                    <= MATCH_DISTANCE_LIMIT * MATCH_DISTANCE_LIMIT
               /\ HistoryOf(tracker')
                    = HistoryOf(UpdateHistory(tracker, trackCall'.outConfidence,
                                              trackCall'.outX, trackCall'.outY))
          ELSE /\ trackCall'.outX = trackCall.outX
               /\ trackCall'.outY = trackCall.outY
               /\ trackCall'.outConfidence = trackCall.outConfidence
               /\ HistoryOf(tracker') = HistoryOf(tracker)
               /\ tracker'.lastMatchX = tracker.lastMatchX
               /\ tracker'.lastMatchY = tracker.lastMatchY
               /\ tracker'.lastConfidence = tracker.lastConfidence
               /\ tracker'.consecutiveStableFrames = tracker.consecutiveStableFrames]_vars

\* a match has been rejected after the search while the caller holds the position of
\* an earlier match and the tracker a run of stable frames
TrackFailureLeavesNoTraceWitness ==
  /\ trackCall.op = "track"
  /\ ~trackCall.ret
  /\ trackCall.exit \notin EarlyExits \cup {"collapse"}
  /\ trackCall.outX \in 30..210
  /\ tracker.historyCount > 0
  /\ tracker.consecutiveStableFrames > 0

=============================================================================
